---- MODULE Spec2Model ----
(***************************************************************************)
(* Hx-H.A.W.K.S: the job registry (pkg/api/manager.go), the scan worker    *)
(* (pkg/scanner/worker.go), the HTTP fetcher (pkg/httpclient) and the two  *)
(* scan pipelines (Scanner.Run, StartScanHandler's scan goroutine).        *)
(*                                                                         *)
(* Specifications:                                                         *)
(*   Spec      the registry driven by any sequence of calls; every call is *)
(*             one step (each method body runs under m.mu).                *)
(*   SpecLock  the registry called by concurrent goroutines; every         *)
(*             statement of a method is one step and m.mu is modelled.     *)
(*   SpecRun   one scan run, in batch mode or in API mode: the feeder, the *)
(*             workers, the collector and the caller interleave.           *)
(***************************************************************************)
EXTENDS Integers, Sequences, FiniteSets, TLC

(***************************************************************************)
(* Bounds of the model.                                                    *)
(***************************************************************************)
\* largest totalURLs argument passed to CreateJob
MaxTotal == 1
\* AddResult is not called on a job that already holds this many results
MaxResults == 2
\* the clock read by time.Now() stops advancing here
MaxTime == 1
\* the longest target list of a scan run
MaxTargets == 2
\* the largest worker count (cfg.Threads) of a scan run
MaxThreads == 2
\* the longest URL list of a request to StartScanHandler
MaxRequestURLs == 2
\* the backing arrays allocated within a behaviour of SpecSlices are at most
MaxArrays == 4
\* a response body matched on its own has at most MaxBodyLen characters,
\* a keyword at most MaxKeywordLen, a keyword list at most MaxKeywords entries
MaxBodyLen == 2
MaxKeywordLen == 2
MaxKeywords == 2
\* the --ck flag has at most MaxRawLen characters
MaxRawLen == 3

(***************************************************************************)
(* Values.                                                                 *)
(***************************************************************************)
\* a nil error
Nil == "<nil>"
\* a nil *time.Time
NoTime == -1
\* the identifiers uuid.New() can return; NoJobID is none of them
JobIDs == {"job-1"}
NoJobID == ""
\* status strings callers pass to UpdateJobStatus: the four the code names
\* and one it does not (the parameter is a plain string)
StatusArgs == {"Pending", "Running", "Completed", "Error", "Paused"}
\* error arguments callers pass to UpdateJobStatus
ErrArgs == {Nil, "scan failed"}

\* the goroutines that call the registry concurrently; NoCaller is none of them
Callers == {"c1", "c2"}
NoCaller == ""

Range(s) == {s[i] : i \in 1..Len(s)}

(***************************************************************************)
(* pkg/httpclient: CustomClient.Fetch.  A URL is a string, a body a        *)
(* sequence of characters.  Redirects are not followed in the model: the   *)
(* final URL of a response is the URL requested.                           *)
(***************************************************************************)
\* bodies a server may answer with
ServerBodies == {<<>>, <<"a", "b">>}
\* status codes a server may answer with
ServerCodes == {200}

\* the tuples Fetch can return for urlStr: (finalURL, status, body, err)
FetchOutcomes(urlStr) ==
    \* http.NewRequestWithContext or c.Client.Do failed
    {[finalURL |-> urlStr, statusCode |-> 0, body |-> <<>>, err |-> "dial error"]}
    \cup
    \* io.ReadAll failed after the response header was read
    {[finalURL |-> urlStr, statusCode |-> c, body |-> <<>>, err |-> "read error"] :
        c \in ServerCodes}
    \cup
    {[finalURL |-> urlStr, statusCode |-> c, body |-> b, err |-> Nil] :
        c \in ServerCodes, b \in ServerBodies}

(***************************************************************************)
(* pkg/scanner/worker.go: keyword matching and the result record.          *)
(***************************************************************************)
\* a variant of strings.Contains that ignores case
ContainsFold(s, substr) ==
    LET Lower(t) == [i \in DOMAIN t |-> IF t[i] = "A" THEN "a" ELSE t[i]]
    IN \E i \in 1..(Len(s) - Len(substr) + 1) :
           Lower(SubSeq(s, i, i + Len(substr) - 1)) = Lower(substr)

\* strings.Contains(s, substr)
Contains(s, substr) ==
    \E i \in 1..(Len(s) - Len(substr) + 1) : SubSeq(s, i, i + Len(substr) - 1) = substr

\* the loop over keywords: matched is de-duplicated, isVulnerable is set on
\* every keyword found
RECURSIVE MatchLoop(_, _, _, _)
MatchLoop(bodyString, keywords, i, acc) ==
    IF i > Len(keywords) THEN acc
    ELSE LET keyword == keywords[i] IN
         IF Contains(bodyString, keyword)
         THEN MatchLoop(bodyString, keywords, i + 1,
                        [matched |-> IF keyword \in Range(acc.matched)
                                     THEN acc.matched
                                     ELSE Append(acc.matched, keyword),
                         isVulnerable |-> TRUE])
         ELSE MatchLoop(bodyString, keywords, i + 1, acc)

Match(bodyString, keywords) ==
    MatchLoop(bodyString, keywords, 1, [matched |-> <<>>, isVulnerable |-> FALSE])

\* the types.ScanResult the worker builds from what Fetch returned (IP,
\* Timestamp and RequestDuration are left out: nothing reads them)
BuildResult(f, keywords) ==
    LET result == [URL |-> f.finalURL, IsVulnerable |-> FALSE, MatchedKeywords |-> <<>>,
                   ResponseBody |-> <<>>, StatusCode |-> f.statusCode, Error |-> ""]
    IN IF f.err # Nil
       THEN [result EXCEPT !.Error = f.err]
       ELSE LET m == Match(f.body, keywords) IN
            [result EXCEPT !.IsVulnerable = m.isVulnerable,
                           !.MatchedKeywords = m.matched,
                           !.ResponseBody = f.body]

\* the keyword list of the modelled runs
Keywords == << <<"a">>, <<"b">> >>

\* the results a caller hands to AddResult
ResultArgs ==
    {BuildResult(f, Keywords) :
        f \in {x \in FetchOutcomes("u1") : x.statusCode = 0 \/ x.body # <<>>}}

(***************************************************************************)
(* pkg/api/manager.go: ScanManager (the second, current copy in the file). *)
(***************************************************************************)
VARIABLES
    jobs,    \* m.jobs: a function from the identifiers present to JobStatus records
    issued,  \* the identifiers uuid.New() has returned so far
    now,     \* the clock time.Now() reads
    last,    \* the most recent call: its name, its jobID argument and what it returned
    mu,      \* m.mu: the caller holding the write lock and the callers holding read locks
    pc,      \* for each concurrent caller, the statement of the method it is at
    call,    \* for each concurrent caller, the method it is in and its arguments
    cfg,         \* the config.Config of the scan run
    urls,        \* the target list of the scan run
    urlChan,     \* the input queue: its buffer and whether it is closed
    resultChan,  \* the output queue: its buffer and whether it is closed
    scanCtx,     \* scanCtx.Err(): Nil until the context is cancelled
    feeder,      \* the feeder goroutine: where it is and the index of the next target
    worker,      \* for each worker: where it is, the URL it received, the result it built
    collector,   \* where the collector goroutine is
    run,         \* Scanner.Run or the scan goroutine: where it is, its locals, and
                 \* what it logged as final counts and handed to the report writers
    Results,     \* Scanner.Results
    handler,     \* the HTTP request an APIHandler method is serving, and its response
    arrays,      \* the backing arrays make and append have allocated for result slices
    returned,    \* the slice GetJobResults returned to its caller
    applied      \* a function applied on its own: its name, arguments and result

regVars == <<jobs, issued, now, last>>
callerVars == <<mu, pc, call>>
runVars == <<cfg, urls, urlChan, resultChan, scanCtx, feeder, worker, collector, run, Results>>
\* what a call made on its own (Spec) leaves alone
apiVars == <<handler>>
sliceVars == <<arrays, returned>>
outsideRegistry == <<callerVars, runVars, apiVars, sliceVars, applied>>
vars == <<regVars, callerVars, runVars, apiVars, sliceVars, applied>>

\* a channel that was not made yet, and make(chan T, n): the capacity is
\* cfg.Threads for both queues
NoChan == [buf |-> <<>>, closed |-> FALSE]
MakeChan == [buf |-> <<>>, closed |-> FALSE]

\* config.Config; the fields the pipeline reads
Config(api, threads, scanDuration, delay) ==
    [API |-> api, Threads |-> threads, ScanDuration |-> scanDuration, Delay |-> delay,
     Keywords |-> Keywords]

NoConfig == Config(FALSE, 0, 0, 0)

\* sync.RWMutex, zero value
Unlocked == [writer |-> NoCaller, readers |-> {}]

\* types.ScanResult, zero value
NoResult ==
    [URL |-> "", IsVulnerable |-> FALSE, MatchedKeywords |-> <<>>,
     ResponseBody |-> <<>>, StatusCode |-> 0, Error |-> ""]

\* a method, its arguments and statusCopy, the local GetJobStatus fills; the
\* arguments a method does not take are zero
Call(op, jobID, totalURLs, status, err, result) ==
    [op |-> op, jobID |-> jobID, totalURLs |-> totalURLs, status |-> status,
     err |-> err, result |-> result, statusCopy |-> <<>>]

NoCall == Call("", NoJobID, 0, "", Nil, NoResult)

Terminal(job) == job.Status = "Completed" \/ job.Status = "Error"

\* what a call leaves in last
Returned(op, jobID, err, snap, results) ==
    [op |-> op, jobID |-> jobID, err |-> err, snap |-> snap, results |-> results]

\* a variant of the literal that counts the job's targets as processed
NewJobStatusProcessed(jobID, totalURLs, t) ==
    [JobID |-> jobID, Status |-> "Pending", TotalURLs |-> totalURLs,
     ProcessedURLs |-> totalURLs, VulnerableURLs |-> 0, StartTime |-> t,
     EndTime |-> NoTime, Error |-> "", Results |-> <<>>]

\* the JobStatus literal of CreateJob
NewJobStatus(jobID, totalURLs, t) ==
    [JobID |-> jobID, Status |-> "Pending", TotalURLs |-> totalURLs,
     ProcessedURLs |-> 0, VulnerableURLs |-> 0, StartTime |-> t,
     EndTime |-> NoTime, Error |-> "", Results |-> <<>>]

\* UpdateJobStatus, line 199
SetStatus(job, status) == [job EXCEPT !.Status = status]

\* a variant of lines 200-203 that records the error and keeps the status
SetErrorKeepStatus(job, err) ==
    IF err # Nil THEN [job EXCEPT !.Error = err] ELSE job

\* UpdateJobStatus, lines 200-203
SetError(job, err) ==
    IF err # Nil THEN [job EXCEPT !.Error = err, !.Status = "Error"] ELSE job

\* UpdateJobStatus, lines 204-207: the test reads the status argument
StampEnd(job, status, t) ==
    IF status = "Completed" \/ status = "Error" THEN [job EXCEPT !.EndTime = t] ELSE job

\* a variant of the body without the test of lines 193-196
UpdatedJobUnguarded(job, status, err, t) ==
    StampEnd(SetError(SetStatus(job, status), err), status, t)

\* the body of UpdateJobStatus once the job is found
UpdatedJob(job, status, err, t) ==
    IF Terminal(job) THEN job
    ELSE StampEnd(SetError(SetStatus(job, status), err), status, t)

\* AddResult, line 221
Accepts(job) == job.Status = "Running" \/ job.Status = "Pending"

\* a variant of line 222 that keeps only the latest result
KeepLatestResult(job, result) == [job EXCEPT !.Results = <<result>>]

\* AddResult, line 222
AppendResult(job, result) == [job EXCEPT !.Results = Append(@, result)]

\* a variant of line 223 that counts a result twice
CountProcessedTwice(job) == [job EXCEPT !.ProcessedURLs = @ + 2]

\* AddResult, line 223
CountProcessed(job) == [job EXCEPT !.ProcessedURLs = @ + 1]

\* AddResult, lines 224-226
CountVulnerable(job, result) ==
    IF result.IsVulnerable THEN [job EXCEPT !.VulnerableURLs = @ + 1] ELSE job

\* a variant of lines 228-230 that leaves the status as it is
PendingStaysPending(job) == job

\* AddResult, lines 228-230
PendingToRunning(job) ==
    IF job.Status = "Pending" /\ job.Error = "" THEN [job EXCEPT !.Status = "Running"] ELSE job

\* the body of AddResult once the job is found and accepts results
WithResult(job, result) ==
    PendingToRunning(CountVulnerable(CountProcessed(AppendResult(job, result)), result))

\* the error AddResult returns for a job that is found
AddResultErr(job) ==
    IF Accepts(job) THEN Nil ELSE "cannot add result to job in status: " \o job.Status

\* the first fields of the statusCopy literal, lines 251-254
StatusCopyHead(job) ==
    [JobID |-> job.JobID, Status |-> job.Status, TotalURLs |-> job.TotalURLs,
     ProcessedURLs |-> job.ProcessedURLs]

\* the other fields of the statusCopy literal, lines 255-258
StatusCopyTail(job) ==
    [VulnerableURLs |-> job.VulnerableURLs,
     StartTime |-> job.StartTime, EndTime |-> job.EndTime, Error |-> job.Error]

\* the copy GetJobStatus returns: every field but Results
StatusCopy(job) == StatusCopyHead(job) @@ StatusCopyTail(job)

\* delete(m.jobs, jobID)
Without(js, jobID) == [j \in (DOMAIN js) \ {jobID} |-> js[j]]

\* a variant of LookupErr that does not test exists
LookupErrIgnored(js, jobID) == Nil

\* job, exists := m.jobs[jobID]; if !exists { return errors.New("job not found") }
LookupErr(js, jobID) == IF jobID \in DOMAIN js THEN Nil ELSE "job not found"

\* m.jobs after UpdateJobStatus(jobID, status, err) at time t, and what it returns
JobsAfterUpdate(js, jobID, status, err, t) ==
    IF jobID \in DOMAIN js
    THEN [js EXCEPT ![jobID] = UpdatedJob(@, status, err, t)]
    ELSE js

UpdateJobStatusErr(js, jobID) == LookupErr(js, jobID)

\* m.jobs after AddResult(jobID, result), and what it returns
JobsAfterAdd(js, jobID, result) ==
    IF jobID \in DOMAIN js /\ Accepts(js[jobID])
    THEN [js EXCEPT ![jobID] = WithResult(@, result)]
    ELSE js

AddResultReturn(js, jobID) ==
    IF jobID \in DOMAIN js THEN AddResultErr(js[jobID]) ELSE "job not found"

\* what GetJobStatus(jobID) returns: <<the copy>>, or <<>> for a nil pointer
StatusOf(js, jobID) == IF jobID \in DOMAIN js THEN <<StatusCopy(js[jobID])>> ELSE <<>>

\* what GetJobResults(jobID) returns: a copy of the list, or nil
ResultsOf(js, jobID) == IF jobID \in DOMAIN js THEN js[jobID].Results ELSE <<>>

----------------------------------------------------------------------------
(***************************************************************************)
(* The registry's calls, each one step.                                    *)
(***************************************************************************)
\* jobID is what uuid.New() returns: an identifier never returned before
CreateJob(jobID, totalURLs) ==
    /\ jobID \notin issued
    /\ jobs' = (jobID :> NewJobStatus(jobID, totalURLs, now)) @@ jobs
    /\ issued' = issued \cup {jobID}
    /\ last' = Returned("CreateJob", jobID, Nil, <<>>, <<>>)
    /\ UNCHANGED <<now, outsideRegistry>>

UpdateJobStatus(jobID, status, err) ==
    /\ jobs' = JobsAfterUpdate(jobs, jobID, status, err, now)
    /\ last' = Returned("UpdateJobStatus", jobID, UpdateJobStatusErr(jobs, jobID), <<>>, <<>>)
    /\ UNCHANGED <<issued, now, outsideRegistry>>

AddResult(jobID, result) ==
    /\ jobID \in DOMAIN jobs => Len(jobs[jobID].Results) < MaxResults
    /\ jobs' = JobsAfterAdd(jobs, jobID, result)
    /\ last' = Returned("AddResult", jobID, AddResultReturn(jobs, jobID), <<>>, <<>>)
    /\ UNCHANGED <<issued, now, outsideRegistry>>

GetJobStatus(jobID) ==
    /\ last' = Returned("GetJobStatus", jobID, LookupErr(jobs, jobID),
                        StatusOf(jobs, jobID), <<>>)
    /\ UNCHANGED <<jobs, issued, now, outsideRegistry>>

GetJobResults(jobID) ==
    /\ last' = Returned("GetJobResults", jobID, LookupErr(jobs, jobID),
                        <<>>, ResultsOf(jobs, jobID))
    /\ UNCHANGED <<jobs, issued, now, outsideRegistry>>

DeleteJob(jobID) ==
    /\ jobs' = Without(jobs, jobID)
    /\ last' = Returned("DeleteJob", jobID, Nil, <<>>, <<>>)
    /\ UNCHANGED <<issued, now, outsideRegistry>>

\* time passes
Tick ==
    /\ now < MaxTime
    /\ now' = now + 1
    /\ UNCHANGED <<jobs, issued, last, outsideRegistry>>

\* NewScanManager: an empty map and an unlocked mutex
InitRegistry ==
    /\ jobs = <<>>
    /\ issued = {}
    /\ now = 0
    /\ last = Returned("NewScanManager", NoJobID, Nil, <<>>, <<>>)
    /\ mu = Unlocked

\* no call is in progress
InitCallers ==
    /\ pc = [c \in Callers |-> "idle"]
    /\ call = [c \in Callers |-> NoCall]

\* no scan run exists
InitNoRun ==
    /\ cfg = NoConfig
    /\ urls = <<>>
    /\ urlChan = NoChan
    /\ resultChan = NoChan
    /\ scanCtx = Nil
    /\ feeder = [pc |-> "unstarted", i |-> 1]
    /\ worker = <<>>
    /\ collector = "unstarted"
    /\ run = [pc |-> "none", jobID |-> NoJobID, currentStatus |-> <<>>, reports |-> <<>>]
    /\ Results = <<>>

\* an HTTP response: the status code and the JSON body, a function of its keys
Response(code, body) == [code |-> code, body |-> body]
NoResponse == Response(0, <<>>)

\* no request is being served
NoRequest ==
    [pc |-> "idle", op |-> "", jobID |-> NoJobID, status |-> <<>>, results |-> <<>>,
     started |-> FALSE, response |-> NoResponse]

InitHandler == handler = NoRequest

\* a function with its arguments, before it returns and once it has returned ret
Applying(fn, args) == [fn |-> fn, args |-> args, ret |-> <<>>, done |-> FALSE]
HasReturned(a, ret) == [a EXCEPT !.ret = ret, !.done = TRUE]

\* no function is applied on its own
InitNotApplied == applied = Applying("", <<>>)

\* a nil slice
NoSlice == [ptr |-> 0, len |-> 0, cap |-> 0]

\* no backing array was allocated and no slice was returned
InitSlices ==
    /\ arrays = <<>>
    /\ returned = NoSlice

Init ==
    /\ InitRegistry
    /\ InitCallers
    /\ InitNoRun
    /\ InitHandler
    /\ InitSlices
    /\ InitNotApplied

Next ==
    \/ \E jobID \in JobIDs, totalURLs \in 0..MaxTotal : CreateJob(jobID, totalURLs)
    \/ \E jobID \in JobIDs, status \in StatusArgs, err \in ErrArgs :
           UpdateJobStatus(jobID, status, err)
    \/ \E jobID \in JobIDs, result \in ResultArgs : AddResult(jobID, result)
    \/ \E jobID \in JobIDs : GetJobStatus(jobID)
    \/ \E jobID \in JobIDs : GetJobResults(jobID)
    \/ \E jobID \in JobIDs : DeleteJob(jobID)
    \/ Tick

Spec == Init /\ [][Next]_vars

\* the registry holding several jobs (SpecJobs): uuid.New() has more than one
\* identifier to return
ManyJobIDs == {"job-1", "job-2"}

\* the result the calls of SpecJobs add
OneResult == CHOOSE r \in ResultArgs : r.IsVulnerable

NextJobs ==
    \/ \E jobID \in ManyJobIDs, totalURLs \in 0..MaxTotal : CreateJob(jobID, totalURLs)
    \/ \E jobID \in ManyJobIDs, err \in ErrArgs : UpdateJobStatus(jobID, "Completed", err)
    \/ \E jobID \in ManyJobIDs : AddResult(jobID, OneResult)
    \/ \E jobID \in ManyJobIDs : DeleteJob(jobID)
    \/ Tick

SpecJobs == Init /\ [][NextJobs]_vars

----------------------------------------------------------------------------
(***************************************************************************)
(* The registry with job.Results as a Go slice (SpecSlices): a slice is a  *)
(* pointer to a backing array, a length and a capacity; arrays[p] is the   *)
(* array at pointer p.                                                     *)
(***************************************************************************)
\* make([]types.ScanResult, n, c) allocates an array of c zero entries
NewArray(c) == [i \in 1..c |-> NoResult]

\* the entries of slice sl
View(as, sl) == [i \in 1..sl.len |-> as[sl.ptr][i]]

\* the capacities append can give the array it allocates for a full slice:
\* what is needed or twice the old capacity, or more when the allocator
\* rounds the size up
GrownCaps(sl) ==
    LET newcap == IF sl.len + 1 > 2 * sl.cap THEN sl.len + 1 ELSE 2 * sl.cap
    IN {newcap, newcap + 1}

\* append(sl, x): in place while the capacity lasts, else into a new array
\* of newcap entries
AppendSlice(as, sl, x, newcap) ==
    IF sl.len < sl.cap
    THEN [arrays |-> [as EXCEPT ![sl.ptr][sl.len + 1] = x],
          slice |-> [sl EXCEPT !.len = @ + 1]]
    ELSE [arrays |-> Append(as, [i \in 1..newcap |->
                                   IF i <= sl.len THEN as[sl.ptr][i]
                                   ELSE IF i = sl.len + 1 THEN x ELSE NoResult]),
          slice |-> [ptr |-> Len(as) + 1, len |-> sl.len + 1, cap |-> newcap]]

\* a variant of GetJobResults, lines 281-284, that returns job.Results itself
ResultsAlias(as, sl) == [arrays |-> as, slice |-> sl]

\* GetJobResults, lines 281-284: make([]types.ScanResult, len(job.Results))
\* and copy(resultsCopy, job.Results)
ResultsCopy(as, sl) ==
    [arrays |-> Append(as, View(as, sl)),
     slice |-> [ptr |-> Len(as) + 1, len |-> sl.len, cap |-> sl.len]]

\* CreateJob, with Results: make([]types.ScanResult, 0, totalURLs)
CreateJobMake(jobID, totalURLs) ==
    /\ jobID \notin issued
    /\ Len(arrays) < MaxArrays
    /\ arrays' = Append(arrays, NewArray(totalURLs))
    /\ jobs' = (jobID :> [NewJobStatus(jobID, totalURLs, now) EXCEPT
                             !.Results = [ptr |-> Len(arrays) + 1, len |-> 0,
                                          cap |-> totalURLs]]) @@ jobs
    /\ issued' = issued \cup {jobID}
    /\ last' = Returned("CreateJob", jobID, Nil, <<>>, <<>>)
    /\ UNCHANGED <<applied, now, returned, callerVars, runVars, apiVars>>

\* AddResult, with line 222 as append on the slice
AddResultAppendSlice(jobID, result) ==
    /\ jobID \in DOMAIN jobs => jobs[jobID].Results.len < MaxResults
    /\ IF jobID \in DOMAIN jobs /\ Accepts(jobs[jobID])
       THEN \E newcap \in GrownCaps(jobs[jobID].Results) :
               LET a == AppendSlice(arrays, jobs[jobID].Results, result, newcap) IN
               /\ Len(a.arrays) <= MaxArrays
               /\ arrays' = a.arrays
               /\ jobs' = [jobs EXCEPT ![jobID] =
                              PendingToRunning(CountVulnerable(CountProcessed(
                                  [@ EXCEPT !.Results = a.slice]), result))]
       ELSE UNCHANGED <<jobs, arrays>>
    /\ last' = Returned("AddResult", jobID, AddResultReturn(jobs, jobID), <<>>, <<>>)
    /\ UNCHANGED <<applied, issued, now, returned, callerVars, runVars, apiVars>>

\* GetJobResults: the caller keeps the slice it gets (nil for a job not found)
GetJobResultsCopy(jobID) ==
    /\ LET r == IF jobID \in DOMAIN jobs
                THEN ResultsCopy(arrays, jobs[jobID].Results)
                ELSE [arrays |-> arrays, slice |-> NoSlice]
       IN /\ Len(r.arrays) <= MaxArrays
          /\ arrays' = r.arrays
          /\ returned' = r.slice
          /\ last' = Returned("GetJobResults", jobID, LookupErr(jobs, jobID), <<>>,
                              View(r.arrays, r.slice))
    /\ UNCHANGED <<applied, jobs, issued, now, callerVars, runVars, apiVars>>

\* the caller of GetJobResults replaces an entry: results[i] = result
CallerReplaces(i, result) ==
    /\ i \in 1..returned.len
    /\ arrays' = [arrays EXCEPT ![returned.ptr][i] = result]
    /\ UNCHANGED <<applied, regVars, returned, callerVars, runVars, apiVars>>

\* the caller of GetJobResults removes an entry:
\* results = append(results[:i], results[i+1:]...), which moves the
\* entries behind it down within the array
CallerRemoves(i) ==
    /\ i \in 1..returned.len
    /\ LET a == arrays[returned.ptr]
       IN arrays' = [arrays EXCEPT ![returned.ptr] =
                        [k \in 1..Len(a) |->
                            IF k >= i /\ k < returned.len THEN a[k + 1] ELSE a[k]]]
    /\ returned' = [returned EXCEPT !.len = @ - 1]
    /\ UNCHANGED <<applied, regVars, callerVars, runVars, apiVars>>

NextSlices ==
    \/ \E jobID \in JobIDs, totalURLs \in 0..MaxTotal : CreateJobMake(jobID, totalURLs)
    \/ \E jobID \in JobIDs, result \in ResultArgs : AddResultAppendSlice(jobID, result)
    \/ \E jobID \in JobIDs : GetJobResultsCopy(jobID)
    \/ \E i \in 1..MaxResults, result \in ResultArgs : CallerReplaces(i, result)
    \/ \E i \in 1..MaxResults : CallerRemoves(i)

SpecSlices == Init /\ [][NextSlices]_vars

----------------------------------------------------------------------------
(***************************************************************************)
(* The registry called by concurrent goroutines (SpecLock): a method takes *)
(* m.mu, runs its statements one step each, and releases m.mu on return.   *)
(***************************************************************************)
\* a variant of m.mu.Lock() that never waits
CanLockAlways(m) == TRUE

\* a variant of m.mu.RLock() that never waits
CanRLockAlways(m) == TRUE

\* a variant of m.mu.Lock() that waits for a writer only
CanLockDespiteReaders(m) == m.writer = NoCaller

\* m.mu.Lock() can return: no writer and no reader holds the mutex
CanLock(m) == m.writer = NoCaller /\ m.readers = {}

\* m.mu.RLock() can return: no writer holds the mutex
CanRLock(m) == m.writer = NoCaller

\* m.mu.Unlock() or m.mu.RUnlock() by caller c
Release(m, c) ==
    [writer |-> IF m.writer = c THEN NoCaller ELSE m.writer, readers |-> m.readers \ {c}]

\* the methods that take the write lock, and the calls of each method
WriteCalls ==
    {Call("CreateJob", NoJobID, t, "", Nil, NoResult) : t \in 0..MaxTotal}
    \cup {Call("UpdateJobStatus", j, 0, st, e, NoResult) :
             j \in JobIDs, st \in StatusArgs, e \in ErrArgs}
    \cup {Call("AddResult", j, 0, "", Nil, r) : j \in JobIDs, r \in ResultArgs}
    \cup {Call("DeleteJob", j, 0, "", Nil, NoResult) : j \in JobIDs}

ReadCalls ==
    {Call(op, j, 0, "", Nil, NoResult) : op \in {"GetJobStatus", "GetJobResults"}, j \in JobIDs}

\* the statement a method is at once it holds the mutex
FirstStatement(op) ==
    CASE op = "CreateJob" -> "insert"
      [] op = "DeleteJob" -> "delete"
      [] op \in {"UpdateJobStatus", "AddResult"} -> "lookup"
      [] OTHER -> "read"

\* the bounds of the model, as guards on starting a call
WithinBounds(cl) ==
    /\ cl.op = "CreateJob" => JobIDs \ issued # {}
    /\ (cl.op = "AddResult" /\ cl.jobID \in DOMAIN jobs)
          => Len(jobs[cl.jobID].Results) < MaxResults

\* caller c is at statement st of method op
At(c, op, st) == pc[c] = st /\ call[c].op = op

\* caller c moves on to statement st
Goto(c, st) == pc' = [pc EXCEPT ![c] = st]

\* caller c returns err from a method that took the write lock
ReturnNow(c, err) ==
    /\ mu' = Release(mu, c)
    /\ last' = Returned(call[c].op, call[c].jobID, err, <<>>, <<>>)
    /\ pc' = [pc EXCEPT ![c] = "idle"]
    /\ call' = [call EXCEPT ![c] = NoCall]

\* a statement that assigns to *job, the pointer read from m.jobs[jobID]
AssignJob(c, job) ==
    jobs' = IF call[c].jobID \in DOMAIN jobs
            THEN [jobs EXCEPT ![call[c].jobID] = job]
            ELSE jobs

\* m.mu.Lock() at the top of CreateJob, UpdateJobStatus, AddResult, DeleteJob
Lock(c, cl) ==
    /\ pc[c] = "idle"
    /\ WithinBounds(cl)
    /\ CanLock(mu)
    /\ mu' = [mu EXCEPT !.writer = c]
    /\ call' = [call EXCEPT ![c] = cl]
    /\ Goto(c, FirstStatement(cl.op))
    /\ UNCHANGED <<applied, regVars, runVars, apiVars, sliceVars>>

\* m.mu.RLock() at the top of GetJobStatus, GetJobResults
RLock(c, cl) ==
    /\ pc[c] = "idle"
    /\ CanRLock(mu)
    /\ mu' = [mu EXCEPT !.readers = @ \cup {c}]
    /\ call' = [call EXCEPT ![c] = cl]
    /\ Goto(c, FirstStatement(cl.op))
    /\ UNCHANGED <<applied, regVars, runVars, apiVars, sliceVars>>

\* CreateJob, lines 170-179
CreateJobInsert(c) ==
    /\ At(c, "CreateJob", "insert")
    /\ \E jobID \in JobIDs \ issued :
          /\ jobs' = (jobID :> NewJobStatus(jobID, call[c].totalURLs, now)) @@ jobs
          /\ issued' = issued \cup {jobID}
          /\ call' = [call EXCEPT ![c].jobID = jobID]
    /\ Goto(c, "return")
    /\ UNCHANGED <<applied, now, last, mu, runVars, apiVars, sliceVars>>

\* UpdateJobStatus, lines 188-196
UpdateJobStatusLookup(c) ==
    /\ At(c, "UpdateJobStatus", "lookup")
    /\ IF call[c].jobID \notin DOMAIN jobs
       THEN ReturnNow(c, "job not found")
       ELSE IF Terminal(jobs[call[c].jobID])
       THEN ReturnNow(c, Nil)
       ELSE Goto(c, "setStatus") /\ UNCHANGED <<applied, last, mu, call, runVars, apiVars, sliceVars>>
    /\ UNCHANGED <<applied, jobs, issued, now, runVars, apiVars, sliceVars>>

\* UpdateJobStatus, line 199
UpdateJobStatusSetStatus(c) ==
    /\ At(c, "UpdateJobStatus", "setStatus")
    /\ AssignJob(c, SetStatus(jobs[call[c].jobID], call[c].status))
    /\ Goto(c, "setError")
    /\ UNCHANGED <<applied, issued, now, last, mu, call, runVars, apiVars, sliceVars>>

\* UpdateJobStatus, lines 200-203
UpdateJobStatusSetError(c) ==
    /\ At(c, "UpdateJobStatus", "setError")
    /\ AssignJob(c, SetError(jobs[call[c].jobID], call[c].err))
    /\ Goto(c, "stampEnd")
    /\ UNCHANGED <<applied, issued, now, last, mu, call, runVars, apiVars, sliceVars>>

\* UpdateJobStatus, lines 204-207
UpdateJobStatusStampEnd(c) ==
    /\ At(c, "UpdateJobStatus", "stampEnd")
    /\ AssignJob(c, StampEnd(jobs[call[c].jobID], call[c].status, now))
    /\ Goto(c, "return")
    /\ UNCHANGED <<applied, issued, now, last, mu, call, runVars, apiVars, sliceVars>>

\* AddResult, lines 216-221 and 231-234
AddResultLookup(c) ==
    /\ At(c, "AddResult", "lookup")
    /\ IF call[c].jobID \notin DOMAIN jobs
       THEN ReturnNow(c, "job not found")
       ELSE IF ~Accepts(jobs[call[c].jobID])
       THEN ReturnNow(c, AddResultErr(jobs[call[c].jobID]))
       ELSE Goto(c, "append") /\ UNCHANGED <<applied, last, mu, call, runVars, apiVars, sliceVars>>
    /\ UNCHANGED <<applied, jobs, issued, now, runVars, apiVars, sliceVars>>

\* AddResult, line 222
AddResultAppend(c) ==
    /\ At(c, "AddResult", "append")
    /\ AssignJob(c, AppendResult(jobs[call[c].jobID], call[c].result))
    /\ Goto(c, "count")
    /\ UNCHANGED <<applied, issued, now, last, mu, call, runVars, apiVars, sliceVars>>

\* AddResult, line 223
AddResultCount(c) ==
    /\ At(c, "AddResult", "count")
    /\ AssignJob(c, CountProcessed(jobs[call[c].jobID]))
    /\ Goto(c, "countVulnerable")
    /\ UNCHANGED <<applied, issued, now, last, mu, call, runVars, apiVars, sliceVars>>

\* AddResult, lines 224-226
AddResultCountVulnerable(c) ==
    /\ At(c, "AddResult", "countVulnerable")
    /\ AssignJob(c, CountVulnerable(jobs[call[c].jobID], call[c].result))
    /\ Goto(c, "toRunning")
    /\ UNCHANGED <<applied, issued, now, last, mu, call, runVars, apiVars, sliceVars>>

\* AddResult, lines 228-230
AddResultToRunning(c) ==
    /\ At(c, "AddResult", "toRunning")
    /\ AssignJob(c, PendingToRunning(jobs[call[c].jobID]))
    /\ Goto(c, "return")
    /\ UNCHANGED <<applied, issued, now, last, mu, call, runVars, apiVars, sliceVars>>

\* DeleteJob, line 291
DeleteJobDelete(c) ==
    /\ At(c, "DeleteJob", "delete")
    /\ jobs' = Without(jobs, call[c].jobID)
    /\ Goto(c, "return")
    /\ UNCHANGED <<applied, issued, now, last, mu, call, runVars, apiVars, sliceVars>>

\* return nil, and the deferred m.mu.Unlock()
Return(c) ==
    /\ pc[c] = "return"
    /\ ReturnNow(c, Nil)
    /\ UNCHANGED <<applied, jobs, issued, now, runVars, apiVars, sliceVars>>

\* return from a method that took the read lock, and the deferred
\* m.mu.RUnlock()
ReturnRead(c, err, snap, results) ==
    /\ last' = Returned(call[c].op, call[c].jobID, err, snap, results)
    /\ mu' = Release(mu, c)
    /\ pc' = [pc EXCEPT ![c] = "idle"]
    /\ call' = [call EXCEPT ![c] = NoCall]

\* GetJobStatus, lines 244-254: the lookup and the first fields of the
\* statusCopy literal, each read from *job
GetJobStatusRead(c) ==
    /\ At(c, "GetJobStatus", "read")
    /\ IF call[c].jobID \notin DOMAIN jobs
       THEN ReturnRead(c, "job not found", <<>>, <<>>)
       ELSE /\ call' = [call EXCEPT ![c].statusCopy = <<StatusCopyHead(jobs[call[c].jobID])>>]
            /\ Goto(c, "readMore")
            /\ UNCHANGED <<last, mu>>
    /\ UNCHANGED <<applied, jobs, issued, now, runVars, apiVars, sliceVars>>

\* GetJobStatus, lines 255-262: the other fields of the literal, read from
\* *job, and return statusCopy, nil (m.mu keeps the entry in the map in
\* between; were it gone, the model reads zero values)
GetJobStatusReadMore(c) ==
    /\ At(c, "GetJobStatus", "readMore")
    /\ LET job == IF call[c].jobID \in DOMAIN jobs
                  THEN jobs[call[c].jobID]
                  ELSE NewJobStatus("", 0, NoTime)
       IN ReturnRead(c, Nil, <<call[c].statusCopy[1] @@ StatusCopyTail(job)>>, <<>>)
    /\ UNCHANGED <<applied, jobs, issued, now, runVars, apiVars, sliceVars>>

\* GetJobResults, lines 270-284, and the deferred m.mu.RUnlock()
GetJobResultsRead(c) ==
    /\ At(c, "GetJobResults", "read")
    /\ last' = Returned("GetJobResults", call[c].jobID, LookupErr(jobs, call[c].jobID),
                        <<>>, ResultsOf(jobs, call[c].jobID))
    /\ mu' = Release(mu, c)
    /\ pc' = [pc EXCEPT ![c] = "idle"]
    /\ call' = [call EXCEPT ![c] = NoCall]
    /\ UNCHANGED <<applied, jobs, issued, now, runVars, apiVars, sliceVars>>

NextLock ==
    \/ \E c \in Callers, cl \in WriteCalls : Lock(c, cl)
    \/ \E c \in Callers, cl \in ReadCalls : RLock(c, cl)
    \/ \E c \in Callers : CreateJobInsert(c)
    \/ \E c \in Callers : UpdateJobStatusLookup(c)
    \/ \E c \in Callers : UpdateJobStatusSetStatus(c)
    \/ \E c \in Callers : UpdateJobStatusSetError(c)
    \/ \E c \in Callers : UpdateJobStatusStampEnd(c)
    \/ \E c \in Callers : AddResultLookup(c)
    \/ \E c \in Callers : AddResultAppend(c)
    \/ \E c \in Callers : AddResultCount(c)
    \/ \E c \in Callers : AddResultCountVulnerable(c)
    \/ \E c \in Callers : AddResultToRunning(c)
    \/ \E c \in Callers : DeleteJobDelete(c)
    \/ \E c \in Callers : Return(c)
    \/ \E c \in Callers : GetJobStatusRead(c)
    \/ \E c \in Callers : GetJobStatusReadMore(c)
    \/ \E c \in Callers : GetJobResultsRead(c)
    \/ Tick

SpecLock == Init /\ [][NextLock]_vars

----------------------------------------------------------------------------
(***************************************************************************)
(* The scan pipeline (SpecRun): Scanner.Run in batch mode, and in API mode *)
(* StartScanHandler with its scan goroutine, which feeds the registry.     *)
(* The feeder, the workers, the collector and the caller are goroutines;   *)
(* every step is one channel operation, select or registry call.           *)
(***************************************************************************)
\* the target list of m URLs (distinct, already validated)
TargetNames == <<"http://t1", "http://t2", "http://t3", "http://t4">>
Targets(m) == SubSeq(TargetNames, 1, m)

\* <-ctx.Done() is ready
Done(ctx) == ctx # Nil

\* cancel(): the first cancellation sets the error
Cancel(ctx) == IF ctx = Nil THEN "context canceled" ELSE ctx

\* a variant of CanSend for a channel without a capacity
CanSendAlways(ch) == TRUE

\* a buffered channel of capacity cfg.Threads
CanSend(ch) == Len(ch.buf) < cfg.Threads
CanRecv(ch) == ch.buf # <<>>
Send(ch, x) == [ch EXCEPT !.buf = Append(@, x)]
Recv(ch) == [ch EXCEPT !.buf = Tail(@)]
Close(ch) == [ch EXCEPT !.closed = TRUE]
\* a variant of Drained in which a closed channel loses what it still buffers
DrainedWhenClosed(ch) == ch.closed

\* a receive would return ok = false
Drained(ch) == ch.closed /\ ch.buf = <<>>

Workers == DOMAIN worker

\* what Fetch returns when its context is already cancelled: c.Client.Do fails
CancelledFetch(urlStr) ==
    [finalURL |-> urlStr, statusCode |-> 0, body |-> <<>>, err |-> "context canceled"]

\* what a Fetch in flight can return
InFlightOutcomes(urlStr, ctx) ==
    IF Done(ctx)
    THEN FetchOutcomes(urlStr) \cup {CancelledFetch(urlStr)}
    ELSE FetchOutcomes(urlStr)

\* the locals of a worker between two targets
WorkerAt(label) == [pc |-> label, urlStr |-> "", result |-> NoResult]

\* StartScanHandler, lines 35-111 and 212-215, for a request whose URLs and
\* keywords are valid: the job is created and the scan goroutine started
StartScanHandler ==
    /\ run.pc = "handler"
    /\ \E jobID \in JobIDs \ issued :
          /\ jobs' = (jobID :> NewJobStatus(jobID, Len(urls), now)) @@ jobs
          /\ issued' = issued \cup {jobID}
          /\ run' = [run EXCEPT !.pc = "setRunning", !.jobID = jobID]
    /\ UNCHANGED <<applied, now, last, callerVars, apiVars, sliceVars, cfg, urls, urlChan, resultChan, scanCtx,
                   feeder, worker, collector, Results>>

\* the scan goroutine, lines 115-122: mark the job Running, or give up
ScanSetRunning ==
    /\ run.pc = "setRunning"
    /\ jobs' = JobsAfterUpdate(jobs, run.jobID, "Running", Nil, now)
    /\ run' = [run EXCEPT !.pc = IF UpdateJobStatusErr(jobs, run.jobID) = Nil
                                 THEN "start" ELSE "returned"]
    /\ UNCHANGED <<applied, issued, now, last, callerVars, apiVars, sliceVars, cfg, urls, urlChan, resultChan, scanCtx,
                   feeder, worker, collector, Results>>

\* Scanner.Run, lines 51-134, and the scan goroutine, lines 125-182: make
\* the channels and the context, start the workers, the feeder, the collector
RunStart ==
    /\ run.pc = "start"
    /\ urlChan' = MakeChan
    /\ resultChan' = MakeChan
    /\ scanCtx' = Nil
    /\ worker' = [w \in 1..cfg.Threads |-> WorkerAt("recv")]
    /\ feeder' = [pc |-> "feed", i |-> 1]
    /\ collector' = "collect"
    /\ run' = [run EXCEPT !.pc = "wgWait"]
    /\ UNCHANGED <<applied, regVars, callerVars, apiVars, sliceVars, cfg, urls, Results>>

\* the deadline of context.WithTimeout(ctx, s.Config.ScanDuration) passes
Timeout ==
    /\ cfg.ScanDuration > 0
    /\ run.pc \in {"wgWait", "collectorWait", "final"}
    /\ scanCtx = Nil
    /\ scanCtx' = "context deadline exceeded"
    /\ UNCHANGED <<applied, regVars, callerVars, apiVars, sliceVars, cfg, urls, urlChan, resultChan, feeder, worker,
                   collector, run, Results>>

\* the feeder's select, case urlChan <- url
FeederSend ==
    /\ feeder.pc = "feed"
    /\ feeder.i <= Len(urls)
    /\ CanSend(urlChan)
    /\ urlChan' = Send(urlChan, urls[feeder.i])
    /\ feeder' = [feeder EXCEPT !.i = @ + 1]
    /\ UNCHANGED <<applied, regVars, callerVars, apiVars, sliceVars, cfg, urls, resultChan, scanCtx, worker,
                   collector, run, Results>>

\* a variant of FeederCancelled: a feeder whose send does not race the
\* cancellation
FeederIgnoresCancel == FALSE /\ UNCHANGED vars

\* the feeder's select, case <-scanCtx.Done(): break feedLoop
FeederCancelled ==
    /\ feeder.pc = "feed"
    /\ feeder.i <= Len(urls)
    /\ Done(scanCtx)
    /\ feeder' = [feeder EXCEPT !.pc = "close"]
    /\ UNCHANGED <<applied, regVars, callerVars, apiVars, sliceVars, cfg, urls, urlChan, resultChan, scanCtx, worker,
                   collector, run, Results>>

\* a variant of FeederClose: a feeder that may close the queue before the
\* loop has ended
FeederCloseEarly ==
    /\ feeder.pc \in {"feed", "close"}
    /\ urlChan' = Close(urlChan)
    /\ feeder' = [feeder EXCEPT !.pc = "done"]
    /\ UNCHANGED <<applied, regVars, callerVars, apiVars, sliceVars, cfg, urls, resultChan, scanCtx, worker,
                   collector, run, Results>>

\* close(urlChan) after the loop
FeederClose ==
    /\ \/ feeder.pc = "close"
       \/ feeder.pc = "feed" /\ feeder.i > Len(urls)
    /\ urlChan' = Close(urlChan)
    /\ feeder' = [feeder EXCEPT !.pc = "done"]
    /\ UNCHANGED <<applied, regVars, callerVars, apiVars, sliceVars, cfg, urls, resultChan, scanCtx, worker,
                   collector, run, Results>>

\* a variant of WorkerRecv: a receive that leaves the item on the queue
WorkerRecvKeepsItem(w) ==
    /\ worker[w].pc = "recv"
    /\ CanRecv(urlChan)
    /\ worker' = [worker EXCEPT ![w] =
          [pc |-> "fetching", urlStr |-> Head(urlChan.buf), result |-> NoResult]]
    /\ UNCHANGED <<applied, regVars, callerVars, apiVars, sliceVars, cfg, urls, urlChan, resultChan, scanCtx, feeder,
                   collector, run, Results>>

\* Worker, lines 28-43: a URL is received and Fetch is called; with the
\* context already cancelled Fetch returns at once
WorkerRecv(w) ==
    /\ worker[w].pc = "recv"
    /\ CanRecv(urlChan)
    /\ urlChan' = Recv(urlChan)
    /\ worker' = [worker EXCEPT ![w] =
          IF Done(scanCtx)
          THEN [pc |-> "send", urlStr |-> Head(urlChan.buf),
                result |-> BuildResult(CancelledFetch(Head(urlChan.buf)), cfg.Keywords)]
          ELSE [pc |-> "fetching", urlStr |-> Head(urlChan.buf), result |-> NoResult]]
    /\ UNCHANGED <<applied, regVars, callerVars, apiVars, sliceVars, cfg, urls, resultChan, scanCtx, feeder,
                   collector, run, Results>>

\* a variant of WorkerInputClosed: a worker that stops as soon as it finds
\* the input queue empty
WorkerStopsWhenEmpty(w) ==
    /\ worker[w].pc = "recv"
    /\ urlChan.buf = <<>>
    /\ worker' = [worker EXCEPT ![w] = WorkerAt("stopped")]
    /\ UNCHANGED <<applied, regVars, callerVars, apiVars, sliceVars, cfg, urls, urlChan, resultChan, scanCtx, feeder,
                   collector, run, Results>>

\* Worker, lines 28-35: the input queue is closed and empty
WorkerInputClosed(w) ==
    /\ worker[w].pc = "recv"
    /\ Drained(urlChan)
    /\ worker' = [worker EXCEPT ![w] = WorkerAt("stopped")]
    /\ UNCHANGED <<applied, regVars, callerVars, apiVars, sliceVars, cfg, urls, urlChan, resultChan, scanCtx, feeder,
                   collector, run, Results>>

\* Worker, lines 121-126: cancelled while waiting for a URL
WorkerCancelledRecv(w) ==
    /\ worker[w].pc = "recv"
    /\ Done(scanCtx)
    /\ worker' = [worker EXCEPT ![w] = WorkerAt("stopped")]
    /\ UNCHANGED <<applied, regVars, callerVars, apiVars, sliceVars, cfg, urls, urlChan, resultChan, scanCtx, feeder,
                   collector, run, Results>>

\* a variant of WorkerFetched: a failed fetch is a separate path that emits
\* no result and takes the next target
WorkerSkipsFailedFetch(w) ==
    /\ worker[w].pc = "fetching"
    /\ \E f \in InFlightOutcomes(worker[w].urlStr, scanCtx) :
          worker' = [worker EXCEPT ![w] =
              IF f.err # Nil
              THEN WorkerAt("recv")
              ELSE [pc |-> "send", urlStr |-> worker[w].urlStr,
                    result |-> BuildResult(f, cfg.Keywords)]]
    /\ UNCHANGED <<applied, regVars, callerVars, apiVars, sliceVars, cfg, urls, urlChan, resultChan, scanCtx, feeder,
                   collector, run, Results>>

\* Worker, lines 43-93: Fetch returns and the result is built
WorkerFetched(w) ==
    /\ worker[w].pc = "fetching"
    /\ \E f \in InFlightOutcomes(worker[w].urlStr, scanCtx) :
          worker' = [worker EXCEPT ![w].pc = "send",
                                   ![w].result = BuildResult(f, cfg.Keywords)]
    /\ UNCHANGED <<applied, regVars, callerVars, apiVars, sliceVars, cfg, urls, urlChan, resultChan, scanCtx, feeder,
                   collector, run, Results>>

\* a variant of WorkerSend: a worker that gives up after a failed fetch
WorkerSendStopsOnError(w) ==
    /\ worker[w].pc = "send"
    /\ ~resultChan.closed
    /\ CanSend(resultChan)
    /\ resultChan' = Send(resultChan, worker[w].result)
    /\ worker' = [worker EXCEPT ![w] =
          WorkerAt(IF worker[w].result.Error # "" THEN "stopped"
                   ELSE IF cfg.Delay > 0 THEN "delay" ELSE "recv")]
    /\ UNCHANGED <<applied, regVars, callerVars, apiVars, sliceVars, cfg, urls, urlChan, scanCtx, feeder,
                   collector, run, Results>>

\* Worker, lines 97-98: the result is sent
WorkerSend(w) ==
    /\ worker[w].pc = "send"
    /\ ~resultChan.closed
    /\ CanSend(resultChan)
    /\ resultChan' = Send(resultChan, worker[w].result)
    /\ worker' = [worker EXCEPT ![w] = WorkerAt(IF cfg.Delay > 0 THEN "delay" ELSE "recv")]
    /\ UNCHANGED <<applied, regVars, callerVars, apiVars, sliceVars, cfg, urls, urlChan, scanCtx, feeder,
                   collector, run, Results>>

\* a variant of WorkerCancelledSend: a send that does not race the
\* cancellation
WorkerSendIgnoresCancel(w) == FALSE /\ UNCHANGED vars

\* Worker, lines 99-103: cancelled while sending; the result is dropped
WorkerCancelledSend(w) ==
    /\ worker[w].pc = "send"
    /\ Done(scanCtx)
    /\ worker' = [worker EXCEPT ![w] = WorkerAt("stopped")]
    /\ UNCHANGED <<applied, regVars, callerVars, apiVars, sliceVars, cfg, urls, urlChan, resultChan, scanCtx, feeder,
                   collector, run, Results>>

\* Worker, lines 108-111: the delay is over
WorkerDelayed(w) ==
    /\ worker[w].pc = "delay"
    /\ worker' = [worker EXCEPT ![w] = WorkerAt("recv")]
    /\ UNCHANGED <<applied, regVars, callerVars, apiVars, sliceVars, cfg, urls, urlChan, resultChan, scanCtx, feeder,
                   collector, run, Results>>

\* Worker, lines 112-117: cancelled during the delay
WorkerCancelledDelay(w) ==
    /\ worker[w].pc = "delay"
    /\ Done(scanCtx)
    /\ worker' = [worker EXCEPT ![w] = WorkerAt("stopped")]
    /\ UNCHANGED <<applied, regVars, callerVars, apiVars, sliceVars, cfg, urls, urlChan, resultChan, scanCtx, feeder,
                   collector, run, Results>>

\* a variant of CollectorRecv: a collector that logs a failed AddResult and
\* goes on collecting
CollectorRecvKeepsGoing ==
    /\ collector = "collect"
    /\ CanRecv(resultChan)
    /\ resultChan' = Recv(resultChan)
    /\ IF cfg.API
       THEN /\ jobs' = JobsAfterAdd(jobs, run.jobID, Head(resultChan.buf))
            /\ UNCHANGED <<scanCtx, collector, Results>>
       ELSE /\ Results' = Append(Results, Head(resultChan.buf))
            /\ UNCHANGED <<jobs, scanCtx, collector>>
    /\ UNCHANGED <<applied, issued, now, last, callerVars, apiVars, sliceVars, cfg, urls, urlChan, feeder, worker, run>>

\* the collector's select, case result, ok := <-resultChan with ok true:
\* Scanner.Run appends to s.Results (lines 113-118); the scan goroutine calls
\* AddResult and, if that fails, cancels and leaves the loop (lines 169-175)
CollectorRecv ==
    /\ collector = "collect"
    /\ CanRecv(resultChan)
    /\ resultChan' = Recv(resultChan)
    /\ IF cfg.API
       THEN /\ jobs' = JobsAfterAdd(jobs, run.jobID, Head(resultChan.buf))
            /\ IF AddResultReturn(jobs, run.jobID) # Nil
               THEN scanCtx' = Cancel(scanCtx) /\ collector' = "done"
               ELSE UNCHANGED <<scanCtx, collector>>
            /\ UNCHANGED Results
       ELSE /\ Results' = Append(Results, Head(resultChan.buf))
            /\ UNCHANGED <<jobs, scanCtx, collector>>
    /\ UNCHANGED <<applied, issued, now, last, callerVars, apiVars, sliceVars, cfg, urls, urlChan, feeder, worker, run>>

\* the collector's select, case result, ok := <-resultChan with ok false
CollectorClosed ==
    /\ collector = "collect"
    /\ Drained(resultChan)
    /\ collector' = "done"
    /\ UNCHANGED <<applied, regVars, callerVars, apiVars, sliceVars, cfg, urls, urlChan, resultChan, scanCtx, feeder,
                   worker, run, Results>>

\* the collector's select, case <-scanCtx.Done(): break collectLoop
CollectorCancelled ==
    /\ collector = "collect"
    /\ Done(scanCtx)
    /\ collector' = "done"
    /\ UNCHANGED <<applied, regVars, callerVars, apiVars, sliceVars, cfg, urls, urlChan, resultChan, scanCtx, feeder,
                   worker, run, Results>>

\* a variant of WaitReturns in which the caller does not wait for the workers
WaitReturnsAtOnce == TRUE

\* wg.Wait() returns: every worker goroutine has run its deferred wg.Done()
WaitReturns == \A w \in Workers : worker[w].pc = "stopped"

\* wg.Wait() returns, then close(resultChan)
RunCloseResults ==
    /\ run.pc = "wgWait"
    /\ WaitReturns
    /\ resultChan' = Close(resultChan)
    /\ run' = [run EXCEPT !.pc = "collectorWait"]
    /\ UNCHANGED <<applied, regVars, callerVars, apiVars, sliceVars, cfg, urls, urlChan, scanCtx, feeder, worker,
                   collector, Results>>

\* Scanner.Run, lines 172-177
NumVulnerable(results) == Cardinality({i \in DOMAIN results : results[i].IsVulnerable})

\* Scanner.Run, lines 178-182: the counts logged and the results handed to
\* output.WriteResultsToFile
FinalReport(results) ==
    [scanned |-> Len(results), numVulnerable |-> NumVulnerable(results), results |-> results]

\* a variant of collectorWg.Wait() that does not wait
CollectorWaitReturnsAtOnce == TRUE

\* collectorWg.Wait() returns: the collector goroutine has run its deferred
\* collectorWg.Done()
CollectorWaitReturns == collector = "done"

\* Scanner.Run, lines 162-184: collectorWg.Wait() returns, the counts are
\* taken and the report writers run
RunFinish ==
    /\ ~cfg.API
    /\ run.pc = "collectorWait"
    /\ CollectorWaitReturns
    /\ run' = [run EXCEPT !.pc = "final", !.reports = Append(@, FinalReport(Results))]
    /\ UNCHANGED <<applied, regVars, callerVars, apiVars, sliceVars, cfg, urls, urlChan, resultChan, scanCtx, feeder,
                   worker, collector, Results>>

\* a variant of ScanGetStatus: a scan goroutine that does not wait for the
\* collector before it reads the status
ScanGetStatusNoWait ==
    /\ cfg.API
    /\ run.pc = "collectorWait"
    /\ run' = [run EXCEPT !.pc = "markCompleted",
                          !.currentStatus = StatusOf(jobs, run.jobID)]
    /\ UNCHANGED <<applied, regVars, callerVars, apiVars, sliceVars, cfg, urls, urlChan, resultChan, scanCtx, feeder,
                   worker, collector, Results>>

\* the scan goroutine, lines 193-199: <-collectorDone, then GetJobStatus
ScanGetStatus ==
    /\ cfg.API
    /\ run.pc = "collectorWait"
    /\ collector = "done"
    /\ run' = [run EXCEPT !.pc = "markCompleted",
                          !.currentStatus = StatusOf(jobs, run.jobID)]
    /\ UNCHANGED <<applied, regVars, callerVars, apiVars, sliceVars, cfg, urls, urlChan, resultChan, scanCtx, feeder,
                   worker, collector, Results>>

\* a variant of ScanMarkCompleted: a scan goroutine that ends without
\* marking the job
ScanEndsUnmarked ==
    /\ run.pc = "markCompleted"
    /\ run' = [run EXCEPT !.pc = "final"]
    /\ UNCHANGED <<applied, regVars, callerVars, apiVars, sliceVars, cfg, urls, urlChan, resultChan, scanCtx,
                   feeder, worker, collector, Results>>

\* the scan goroutine, lines 200-207: mark the job Completed unless the
\* status read was Error or nil
ScanMarkCompleted ==
    /\ run.pc = "markCompleted"
    /\ jobs' = IF run.currentStatus # <<>> /\ run.currentStatus[1].Status # "Error"
               THEN JobsAfterUpdate(jobs, run.jobID, "Completed", Nil, now)
               ELSE jobs
    /\ run' = [run EXCEPT !.pc = "final"]
    /\ UNCHANGED <<applied, issued, now, last, callerVars, apiVars, sliceVars, cfg, urls, urlChan, resultChan, scanCtx,
                   feeder, worker, collector, Results>>

\* the function returns: the deferred cancel() runs
RunReturn ==
    /\ run.pc = "final"
    /\ scanCtx' = Cancel(scanCtx)
    /\ run' = [run EXCEPT !.pc = "returned"]
    /\ UNCHANGED <<applied, regVars, callerVars, apiVars, sliceVars, cfg, urls, urlChan, resultChan, feeder, worker,
                   collector, Results>>

\* another goroutine deletes the job of the run
DeleteRunningJob ==
    /\ run.jobID \in DOMAIN jobs
    /\ jobs' = Without(jobs, run.jobID)
    /\ UNCHANGED <<applied, issued, now, last, callerVars, apiVars, sliceVars, runVars>>

\* the runs of the model: batch mode with or without a scan duration, API
\* mode (whose config has no scan duration), any worker count and delay
InitRun ==
    /\ \E api \in BOOLEAN, threads \in 1..MaxThreads, scanDuration \in {0, 1}, delay \in {0, 1} :
          /\ api => scanDuration = 0
          /\ cfg = Config(api, threads, scanDuration, delay)
    /\ \E m \in 1..MaxTargets : urls = Targets(m)
    /\ urlChan = NoChan
    /\ resultChan = NoChan
    /\ scanCtx = Nil
    /\ feeder = [pc |-> "unstarted", i |-> 1]
    /\ worker = <<>>
    /\ collector = "unstarted"
    /\ run = [pc |-> IF cfg.API THEN "handler" ELSE "start", jobID |-> NoJobID,
              currentStatus |-> <<>>, reports |-> <<>>]
    /\ Results = <<>>

InitSpecRun ==
    /\ InitRegistry
    /\ InitCallers
    /\ InitRun
    /\ InitHandler
    /\ InitSlices
    /\ InitNotApplied

NextRun ==
    \/ StartScanHandler
    \/ ScanSetRunning
    \/ RunStart
    \/ Timeout
    \/ FeederSend
    \/ FeederCancelled
    \/ FeederClose
    \/ \E w \in Workers : WorkerRecv(w)
    \/ \E w \in Workers : WorkerInputClosed(w)
    \/ \E w \in Workers : WorkerCancelledRecv(w)
    \/ \E w \in Workers : WorkerFetched(w)
    \/ \E w \in Workers : WorkerSend(w)
    \/ \E w \in Workers : WorkerCancelledSend(w)
    \/ \E w \in Workers : WorkerDelayed(w)
    \/ \E w \in Workers : WorkerCancelledDelay(w)
    \/ CollectorRecv
    \/ CollectorClosed
    \/ CollectorCancelled
    \/ RunCloseResults
    \/ RunFinish
    \/ ScanGetStatus
    \/ ScanMarkCompleted
    \/ RunReturn
    \/ DeleteRunningJob

SpecRun == InitSpecRun /\ [][NextRun]_vars

\* SIGINT or SIGTERM reaches the process while main is inside scan.Run.  In
\* CLI mode nothing calls signal.Notify, so the Go runtime ends the process:
\* every goroutine stops where it is and nothing cancels scanCtx
Interrupt ==
    /\ ~cfg.API
    /\ run.pc \in {"wgWait", "collectorWait", "final"}
    /\ run' = [run EXCEPT !.pc = "killed"]
    /\ feeder' = [feeder EXCEPT !.pc = "killed"]
    /\ worker' = [w \in DOMAIN worker |-> [worker[w] EXCEPT !.pc = "killed"]]
    /\ collector' = "killed"
    /\ UNCHANGED <<applied, regVars, callerVars, apiVars, sliceVars, cfg, urls, urlChan,
                   resultChan, scanCtx, Results>>

\* the scan pipeline of a process that can be interrupted (SpecRunInterrupt)
NextRunInterrupt == NextRun \/ Interrupt

SpecRunInterrupt == InitSpecRun /\ [][NextRunInterrupt]_vars

\* the calls another goroutine makes to UpdateJobStatus on the job of the run
OtherStatusArgs == {<<"Completed", Nil>>, <<"Error", "scan failed">>, <<"Paused", Nil>>}

\* another goroutine calls UpdateJobStatus on the job of the run
OtherUpdateJobStatus ==
    /\ run.jobID \in DOMAIN jobs
    /\ \E a \in OtherStatusArgs :
          jobs' = JobsAfterUpdate(jobs, run.jobID, a[1], a[2], now)
    /\ UNCHANGED <<applied, issued, now, last, callerVars, apiVars, sliceVars, runVars>>

\* the steps of the feeder goroutine, of worker w, of the collector goroutine
\* and of the caller (Scanner.Run, or the handler and its scan goroutine)
FeederStep == FeederSend \/ FeederCancelled \/ FeederClose
WorkerStep(w) ==
    /\ w \in Workers
    /\ \/ WorkerRecv(w)
       \/ WorkerInputClosed(w)
       \/ WorkerCancelledRecv(w)
       \/ WorkerFetched(w)
       \/ WorkerSend(w)
       \/ WorkerCancelledSend(w)
       \/ WorkerDelayed(w)
       \/ WorkerCancelledDelay(w)
CollectorStep == CollectorRecv \/ CollectorClosed \/ CollectorCancelled
CallerStep ==
    \/ StartScanHandler
    \/ ScanSetRunning
    \/ RunStart
    \/ RunCloseResults
    \/ RunFinish
    \/ ScanGetStatus
    \/ ScanMarkCompleted
    \/ RunReturn

\* the Go scheduler runs every goroutine that can take a step, a fetch in
\* flight returns (the client has a timeout) and a delay ends; the deadline
\* and the deletion of the job are left to the environment
SpecRunFair ==
    /\ SpecRun
    /\ WF_vars(FeederStep)
    /\ \A w \in 1..MaxThreads : WF_vars(WorkerStep(w))
    /\ WF_vars(CollectorStep)
    /\ WF_vars(CallerStep)

\* Scanner.Run called with any list of targets, the empty one included
\* (main and StartScanHandler never pass an empty list, so the empty list
\* is a batch run)
InitRunAny ==
    /\ \E api \in BOOLEAN, threads \in 1..MaxThreads, scanDuration \in {0, 1}, delay \in {0, 1} :
          /\ api => scanDuration = 0
          /\ cfg = Config(api, threads, scanDuration, delay)
    /\ \E m \in 0..MaxTargets :
          /\ m = 0 => ~cfg.API
          /\ urls = Targets(m)
    /\ urlChan = NoChan
    /\ resultChan = NoChan
    /\ scanCtx = Nil
    /\ feeder = [pc |-> "unstarted", i |-> 1]
    /\ worker = <<>>
    /\ collector = "unstarted"
    /\ run = [pc |-> IF cfg.API THEN "handler" ELSE "start", jobID |-> NoJobID,
              currentStatus |-> <<>>, reports |-> <<>>]
    /\ Results = <<>>

InitSpecRunAny ==
    /\ InitRegistry
    /\ InitCallers
    /\ InitRunAny
    /\ InitHandler
    /\ InitSlices
    /\ InitNotApplied

\* the pipeline over any list, its goroutines scheduled as in SpecRunFair
SpecRunAnyFair ==
    /\ InitSpecRunAny
    /\ [][NextRun]_vars
    /\ WF_vars(FeederStep)
    /\ \A w \in 1..MaxThreads : WF_vars(WorkerStep(w))
    /\ WF_vars(CollectorStep)
    /\ WF_vars(CallerStep)

\* a scan run while other goroutines use the registry: they may delete the
\* job of the run or set its status
NextRunEnv ==
    \/ NextRun
    \/ OtherUpdateJobStatus

SpecRunEnv ==
    /\ InitSpecRun
    /\ [][NextRunEnv]_vars
    /\ WF_vars(FeederStep)
    /\ \A w \in 1..MaxThreads : WF_vars(WorkerStep(w))
    /\ WF_vars(CollectorStep)
    /\ WF_vars(CallerStep)

----------------------------------------------------------------------------
(***************************************************************************)
(* The HTTP handlers (SpecAPI): StartScanHandler, ScanStatusHandler and    *)
(* ScanResultHandler serve one request at a time while the scan goroutines *)
(* and other callers update, fill and delete the jobs.  A URL of a request *)
(* is a sequence of parts: blanks, a scheme, a host.                       *)
(***************************************************************************)
Space == " "

\* the URLs a request may list
RequestURLs ==
    {<<"http://", "t1">>, <<Space, "https://", "t2", Space>>, <<"ftp://", "t3">>, <<Space>>}

\* the keyword lists a request may carry
RequestKeywords == {<<>>, << <<"a">> >>}

\* the sequences over S of length at most n
SeqUpTo(S, n) == UNION {[1..k -> S] : k \in 0..n}

\* strings.TrimSpace
RECURSIVE TrimLeft(_)
TrimLeft(u) == IF u # <<>> /\ Head(u) = Space THEN TrimLeft(Tail(u)) ELSE u
RECURSIVE TrimRight(_)
TrimRight(u) ==
    IF u # <<>> /\ u[Len(u)] = Space THEN TrimRight(SubSeq(u, 1, Len(u) - 1)) ELSE u
TrimSpace(u) == TrimRight(TrimLeft(u))

\* strings.HasPrefix, for a prefix that is one part
HasPrefix(u, prefix) == u # <<>> /\ Head(u) = prefix

\* StartScanHandler, line 98
IsValidURL(trimmed) ==
    trimmed # <<>> /\ (HasPrefix(trimmed, "http://") \/ HasPrefix(trimmed, "https://"))

\* StartScanHandler, lines 95-103: the URLs kept, trimmed
RECURSIVE ValidURLs(_)
ValidURLs(us) ==
    IF us = <<>> THEN <<>>
    ELSE (IF IsValidURL(TrimSpace(Head(us))) THEN <<TrimSpace(Head(us))>> ELSE <<>>)
         \o ValidURLs(Tail(us))

\* the JSON key of each field of types.JobStatus; "-" leaves the field out
JSONTag ==
    [JobID |-> "job_id", Status |-> "status", TotalURLs |-> "total_urls",
     ProcessedURLs |-> "processed_urls", VulnerableURLs |-> "vulnerable_urls",
     StartTime |-> "start_time", EndTime |-> "end_time", Error |-> "error",
     Results |-> "-"]

\* the fields tagged omitempty, when empty
OmitEmpty(field, value) ==
    \/ field = "EndTime" /\ value = NoTime
    \/ field = "Error" /\ value = ""

\* json.NewEncoder(w).Encode(status) of a *types.JobStatus
EncodeJobStatus(js) ==
    LET fields == {f \in DOMAIN js : JSONTag[f] # "-" /\ ~OmitEmpty(f, js[f])}
    IN [key \in {JSONTag[f] : f \in fields} |->
            js[CHOOSE f \in fields : JSONTag[f] = key]]

\* jobWithResults := status; jobWithResults.Results = results
WithResults(status, results) ==
    [f \in DOMAIN status \cup {"Results"} |->
        IF f = "Results" THEN results ELSE status[f]]

\* the handler writes its response and is done
Respond(code, body) ==
    [handler EXCEPT !.pc = "done", !.response = Response(code, body)]

\* http.Error with StatusBadRequest
BadRequest(op) ==
    [NoRequest EXCEPT !.pc = "done", !.op = op, !.response = Response(400, <<>>)]

\* a variant of StartScanHandlerCheck without the check of the keyword list
StartScanHandlerNoKeywordCheck(urlList, keywords) ==
    /\ handler.pc = "idle"
    /\ IF Len(urlList) = 0 \/ Len(ValidURLs(urlList)) = 0
       THEN /\ handler' = BadRequest("StartScan")
            /\ UNCHANGED <<jobs, issued>>
       ELSE \E jobID \in JobIDs \ issued :
               /\ jobs' = (jobID :> NewJobStatus(jobID, Len(ValidURLs(urlList)), now)) @@ jobs
               /\ issued' = issued \cup {jobID}
               /\ handler' = [NoRequest EXCEPT !.pc = "created", !.op = "StartScan",
                                               !.jobID = jobID]
    /\ UNCHANGED <<applied, now, last, callerVars, runVars, sliceVars>>

\* StartScanHandler, lines 57-111: the request is refused, or the job is
\* created for the valid URLs
StartScanHandlerCheck(urlList, keywords) ==
    /\ handler.pc = "idle"
    /\ IF Len(urlList) = 0 \/ Len(keywords) = 0 \/ Len(ValidURLs(urlList)) = 0
       THEN /\ handler' = BadRequest("StartScan")
            /\ UNCHANGED <<jobs, issued>>
       ELSE \E jobID \in JobIDs \ issued :
               /\ jobs' = (jobID :> NewJobStatus(jobID, Len(ValidURLs(urlList)), now)) @@ jobs
               /\ issued' = issued \cup {jobID}
               /\ handler' = [NoRequest EXCEPT !.pc = "created", !.op = "StartScan",
                                               !.jobID = jobID]
    /\ UNCHANGED <<applied, now, last, callerVars, runVars, sliceVars>>

\* StartScanHandler, lines 114 and 210-215: the scan goroutine is started
\* and the identifier is returned
StartScanHandlerRespond ==
    /\ handler.pc = "created"
    /\ handler' = [handler EXCEPT !.pc = "done", !.started = TRUE,
                                  !.response = Response(202, [job_id |-> handler.jobID])]
    /\ UNCHANGED <<applied, regVars, callerVars, runVars, sliceVars>>

\* ScanStatusHandler, lines 244-251
ScanStatusHandler(jobID) ==
    /\ handler.pc = "idle"
    /\ handler' =
          IF LookupErr(jobs, jobID) # Nil
          THEN [NoRequest EXCEPT !.pc = "done", !.op = "ScanStatus", !.jobID = jobID,
                                 !.response = Response(404, <<>>)]
          ELSE [NoRequest EXCEPT !.pc = "done", !.op = "ScanStatus", !.jobID = jobID,
                                 !.status = StatusOf(jobs, jobID),
                                 !.response =
                                     Response(200, EncodeJobStatus(StatusOf(jobs, jobID)[1]))]
    /\ UNCHANGED <<applied, regVars, callerVars, runVars, sliceVars>>

\* ScanResultHandler, lines 280-293: the status is read; a job that is not
\* finished is answered with its status
ScanResultHandlerStatus(jobID) ==
    /\ handler.pc = "idle"
    /\ handler' =
          IF LookupErr(jobs, jobID) # Nil
          THEN [NoRequest EXCEPT !.pc = "done", !.op = "ScanResult", !.jobID = jobID,
                                 !.response = Response(404, <<>>)]
          ELSE IF ~Terminal(StatusOf(jobs, jobID)[1])
          THEN [NoRequest EXCEPT !.pc = "done", !.op = "ScanResult", !.jobID = jobID,
                                 !.status = StatusOf(jobs, jobID),
                                 !.response =
                                     Response(202, EncodeJobStatus(StatusOf(jobs, jobID)[1]))]
          ELSE [NoRequest EXCEPT !.pc = "getResults", !.op = "ScanResult", !.jobID = jobID,
                                 !.status = StatusOf(jobs, jobID)]
    /\ UNCHANGED <<applied, regVars, callerVars, runVars, sliceVars>>

\* ScanResultHandler, lines 296-309: the results are read and the status
\* with the results is encoded
ScanResultHandlerResults ==
    /\ handler.pc = "getResults"
    /\ handler' =
          IF LookupErr(jobs, handler.jobID) # Nil
          THEN Respond(500, <<>>)
          ELSE [handler EXCEPT
                   !.pc = "done",
                   !.results = ResultsOf(jobs, handler.jobID),
                   !.response =
                       Response(200, EncodeJobStatus(
                           WithResults(handler.status[1], ResultsOf(jobs, handler.jobID))))]
    /\ UNCHANGED <<applied, regVars, callerVars, runVars, sliceVars>>

\* the handler returns; the next request can be served
HandlerReturn ==
    /\ handler.pc = "done"
    /\ handler' = NoRequest
    /\ UNCHANGED <<applied, regVars, callerVars, runVars, sliceVars>>

\* the status arguments of the calls made while requests are served: the
\* scan goroutine's "Running" and "Completed", and "Error"
ServerStatusArgs == {"Running", "Completed", "Error"}

NextAPI ==
    \/ \E jobID \in JobIDs, status \in ServerStatusArgs, err \in ErrArgs :
           UpdateJobStatus(jobID, status, err)
    \/ \E jobID \in JobIDs, result \in ResultArgs : AddResult(jobID, result)
    \/ \E jobID \in JobIDs : DeleteJob(jobID)
    \/ \E urlList \in SeqUpTo(RequestURLs, MaxRequestURLs), keywords \in RequestKeywords :
           StartScanHandlerCheck(urlList, keywords)
    \/ StartScanHandlerRespond
    \/ \E jobID \in JobIDs : ScanStatusHandler(jobID)
    \/ \E jobID \in JobIDs : ScanResultHandlerStatus(jobID)
    \/ ScanResultHandlerResults
    \/ HandlerReturn

SpecAPI == Init /\ [][NextAPI]_vars

----------------------------------------------------------------------------
(***************************************************************************)
(* The worker's keyword matching applied to any body and keyword list      *)
(* (SpecMatch).                                                            *)
(***************************************************************************)
\* the characters of bodies and keywords
Chars == {"a", "A"}

\* the state in which nothing but applied is in use
InitIdle ==
    /\ InitRegistry
    /\ InitCallers
    /\ InitNoRun
    /\ InitHandler
    /\ InitSlices

InitMatch ==
    /\ InitIdle
    /\ applied \in {Applying("Match", <<bodyString, keywords>>) :
                       bodyString \in SeqUpTo(Chars, MaxBodyLen),
                       keywords \in SeqUpTo(SeqUpTo(Chars, MaxKeywordLen), MaxKeywords)}

\* worker.go, lines 61-89: the else branch of Worker on one body
ApplyMatch ==
    /\ applied.fn = "Match"
    /\ ~applied.done
    /\ applied' = HasReturned(applied, Match(applied.args[1], applied.args[2]))
    /\ UNCHANGED <<regVars, callerVars, runVars, apiVars, sliceVars>>

SpecMatch == InitMatch /\ [][ApplyMatch]_vars

----------------------------------------------------------------------------
(***************************************************************************)
(* The two ways into a scan, up to the start of the pipeline (SpecEntry):  *)
(* config.ParseFlags and main for the command line, StartScanHandler for   *)
(* a request.  A string is a sequence of characters.                       *)
(***************************************************************************)
Comma == ","

\* the characters of the --ck flag
RawChars == {"a", Space, Comma}

\* the keywords a request may list
RequestKeywordStrings == {<<"a">>, <<Space, "a", Space>>, <<Space>>, <<>>}

\* the values of the threads flag and of the threads field of a request
ThreadsArgs == (-1)..MaxThreads

\* strings.Split(s, ",")
RECURSIVE Split(_)
Split(s) ==
    IF \A i \in DOMAIN s : s[i] # Comma THEN <<s>>
    ELSE LET i == CHOOSE k \in DOMAIN s : s[k] = Comma /\ \A n \in 1..(k - 1) : s[n] # Comma
         IN <<SubSeq(s, 1, i - 1)>> \o Split(SubSeq(s, i + 1, Len(s)))

\* ParseFlags, lines 95-97
TrimEach(keywords) == [i \in DOMAIN keywords |-> TrimSpace(keywords[i])]

\* ParseFlags, lines 99-105
RECURSIVE ValidKeywords(_)
ValidKeywords(keywords) ==
    IF keywords = <<>> THEN <<>>
    ELSE (IF Head(keywords) # <<>> THEN <<Head(keywords)>> ELSE <<>>)
         \o ValidKeywords(Tail(keywords))

\* the number of workers when none, or not a positive number, is asked for
DefaultThreads == 10

\* a variant of lines 87-90 that takes the flag as it is
ThreadsAsGiven(threads) == threads

\* ParseFlags, lines 87-90
ThreadsOrDefault(threads) == IF threads <= 0 THEN DefaultThreads ELSE threads

\* StartScanHandler, lines 71 and 80-82
RequestThreads(threads) == IF threads > 0 THEN threads ELSE DefaultThreads

\* utils.ReadLines: the lines kept, trimmed (url.ParseRequestURI accepts
\* every URL of the model that has a scheme)
ReadLines(lines) == ValidURLs(lines)

\* log.Fatal, or http.Error and return: no pipeline is started
NotStarted == [started |-> FALSE, Threads |-> 0, Keywords |-> <<>>, urls |-> <<>>]

\* the pipeline is started: Scanner.Run(urls), or the scan goroutine, with
\* these fields of its Config
Started(threads, keywords, urlsToScan) ==
    [started |-> TRUE, Threads |-> threads, Keywords |-> keywords, urls |-> urlsToScan]

\* ParseFlags without -api and with an input file that exists, then main
Main(KeywordsRaw, threads, lines) ==
    IF KeywordsRaw = <<>> THEN NotStarted
    ELSE LET keywords == ValidKeywords(TrimEach(Split(KeywordsRaw)))
             urlList == ReadLines(lines)
         IN IF keywords = <<>> THEN NotStarted
            ELSE IF urlList = <<>> THEN NotStarted
            ELSE Started(ThreadsOrDefault(threads), keywords, urlList)

\* StartScanHandler up to the go statement
StartScan(urlList, keywords, threads) ==
    IF urlList = <<>> THEN NotStarted
    ELSE IF keywords = <<>> THEN NotStarted
    ELSE IF ValidURLs(urlList) = <<>> THEN NotStarted
    ELSE Started(RequestThreads(threads), keywords, ValidURLs(urlList))

InitEntry ==
    /\ InitIdle
    /\ applied \in
          {Applying("main", <<KeywordsRaw, threads, lines>>) :
               KeywordsRaw \in SeqUpTo(RawChars, MaxRawLen), threads \in ThreadsArgs,
               lines \in SeqUpTo(RequestURLs, MaxRequestURLs)}
          \cup
          {Applying("StartScanHandler", <<urlList, keywords, threads>>) :
               urlList \in SeqUpTo(RequestURLs, MaxRequestURLs),
               keywords \in SeqUpTo(RequestKeywordStrings, MaxKeywords),
               threads \in ThreadsArgs}

ApplyMain ==
    /\ applied.fn = "main"
    /\ ~applied.done
    /\ applied' = HasReturned(applied, Main(applied.args[1], applied.args[2], applied.args[3]))
    /\ UNCHANGED <<regVars, callerVars, runVars, apiVars, sliceVars>>

ApplyStartScan ==
    /\ applied.fn = "StartScanHandler"
    /\ ~applied.done
    /\ applied' = HasReturned(applied,
                              StartScan(applied.args[1], applied.args[2], applied.args[3]))
    /\ UNCHANGED <<regVars, callerVars, runVars, apiVars, sliceVars>>

NextEntry == ApplyMain \/ ApplyStartScan

SpecEntry == InitEntry /\ [][NextEntry]_vars

----------------------------------------------------------------------------
(***************************************************************************)
(* Properties of keyword matching (SpecMatch).                             *)
(***************************************************************************)
\* keyword occurs in bodyString: at some offset every character of keyword
\* equals the character of bodyString there, upper and lower case distinct
Occurs(bodyString, keyword) ==
    \E offset \in 0..(Len(bodyString) - Len(keyword)) :
        \A n \in 1..Len(keyword) : bodyString[offset + n] = keyword[n]

\* the index at which keyword stands first in keywords
FirstIndex(keywords, keyword) ==
    CHOOSE i \in DOMAIN keywords :
        keywords[i] = keyword /\ \A k \in 1..(i - 1) : keywords[k] # keyword

----------------------------------------------------------------------------
(***************************************************************************)
(* Properties of the two ways into a scan (SpecEntry).                     *)
(***************************************************************************)
\* keyword has no blank at either end and is not empty
Trimmed(keyword) == keyword # <<>> /\ TrimSpace(keyword) = keyword

\* C27: from the command line and from a request alike, the keyword list a
\* started pipeline is given is not empty and each keyword in it has no
\* surrounding blanks and is not the empty string.
KeywordsTrimmedNonEmpty ==
    (applied.done /\ applied.ret.started) =>
        /\ applied.ret.Keywords # <<>>
        /\ \A i \in DOMAIN applied.ret.Keywords : Trimmed(applied.ret.Keywords[i])

\* the input has no URL to scan: the file or the request lists none, or
\* none with an http or https scheme
NoURLs == ValidURLs(applied.args[IF applied.fn = "main" THEN 3 ELSE 1]) = <<>>

\* the input has no keyword: the --ck flag names none, or the request
\* lists none
NoKeywords ==
    IF applied.fn = "main"
    THEN \A i \in DOMAIN Split(applied.args[1]) : TrimSpace(Split(applied.args[1])[i]) = <<>>
    ELSE applied.args[2] = <<>>

\* the threads flag, or the threads field of the request
ThreadsAsked == applied.args[IF applied.fn = "main" THEN 2 ELSE 3]

\* C28 as stated: no URL, no keyword or a worker count that is not
\* positive never leads to a started pipeline, from the command line or
\* from a request.
ConfigFailureRejected ==
    (applied.done /\ (NoURLs \/ NoKeywords \/ ThreadsAsked <= 0)) => ~applied.ret.started

\* C28 amended: no URL or no keyword never leads to a started pipeline,
\* from the command line or from a request; a worker count that is not
\* positive is not refused but replaced by 10, so a pipeline is started
\* exactly when there is a URL and a keyword, and always with a positive
\* worker count, a URL and a keyword.
ConfigFailureRejectedOrDefaulted ==
    applied.done =>
        /\ applied.ret.started <=> (~NoURLs /\ ~NoKeywords)
        /\ applied.ret.started =>
               /\ applied.ret.urls # <<>>
               /\ applied.ret.Keywords # <<>>
               /\ applied.ret.Threads > 0
               /\ ThreadsAsked <= 0 => applied.ret.Threads = DefaultThreads
               /\ ThreadsAsked > 0 => applied.ret.Threads = ThreadsAsked

\* C28 witness: main was run with -threads 0, a keyword and a file with a
\* URL, and has started the pipeline with 10 workers
ConfigFailureRejectedOrDefaultedWitness ==
    /\ applied.fn = "main"
    /\ applied.done
    /\ ThreadsAsked = 0
    /\ applied.ret.started
    /\ applied.ret.Threads = 10

----------------------------------------------------------------------------
(***************************************************************************)
(* Properties of the registry under any sequence of calls (Spec).          *)
(***************************************************************************)
Rejection(err) ==
    err \in {"cannot add result to job in status: " \o s : s \in StatusArgs}

\* the number of vulnerable results in a result list
RECURSIVE CountVuln(_)
CountVuln(results) ==
    IF results = <<>> THEN 0
    ELSE (IF results[1].IsVulnerable THEN 1 ELSE 0) + CountVuln(Tail(results))

\* C3: in every reachable state every job has
\* 0 <= VulnerableURLs <= ProcessedURLs <= TotalURLs.
CounterConsistency ==
    \A j \in DOMAIN jobs :
        /\ 0 <= jobs[j].VulnerableURLs
        /\ jobs[j].VulnerableURLs <= jobs[j].ProcessedURLs
        /\ jobs[j].ProcessedURLs <= jobs[j].TotalURLs

\* C4: once a job is Completed or Error, an UpdateJobStatus or AddResult call
\* leaves every field of it, the result list included, as it was.
TerminalJobFrozen ==
    [][\A j \in DOMAIN jobs :
          (Terminal(jobs[j]) /\ last'.op \in {"UpdateJobStatus", "AddResult"})
              => (j \in DOMAIN jobs' /\ jobs'[j] = jobs[j])]_vars

\* C4 witness: AddResult has just been refused on a Completed job that holds
\* results and an end time.
TerminalJobFrozenWitness ==
    \E j \in DOMAIN jobs :
        /\ jobs[j].Status = "Completed"
        /\ jobs[j].ProcessedURLs > 0
        /\ jobs[j].EndTime # NoTime /\ jobs[j].EndTime < now
        /\ last = Returned("AddResult", j, "cannot add result to job in status: Completed",
                           <<>>, <<>>)

\* the status changes C5 allows
AllowedStatusStep(from, to) ==
    \/ from = to
    \/ from = "Pending" /\ to \in {"Running", "Completed", "Error"}
    \/ from = "Running" /\ to \in {"Completed", "Error"}

\* C5: a job's status is one of Pending, Running, Completed, Error and changes
\* only Pending -> Running, Pending -> {Completed, Error}, Running ->
\* {Completed, Error}.
StatusStateMachine ==
    [][\A j \in DOMAIN jobs' :
          /\ jobs'[j].Status \in {"Pending", "Running", "Completed", "Error"}
          /\ j \in DOMAIN jobs => AllowedStatusStep(jobs[j].Status, jobs'[j].Status)]_vars

\* C6: a job's end time is set exactly when its status is Completed or Error,
\* and once set it never changes.
EndTimeIffTerminal ==
    [][\A j \in DOMAIN jobs' :
          /\ (jobs'[j].EndTime # NoTime) <=> Terminal(jobs'[j])
          /\ (j \in DOMAIN jobs /\ jobs[j].EndTime # NoTime)
                 => jobs'[j].EndTime = jobs[j].EndTime]_vars

\* C7: UpdateJobStatus with a non-nil error on a job that is not Completed or
\* Error sets its status to Error and records the error's text, whatever the
\* status argument.
ErrorForcesErrorStatus ==
    [][\A jobID \in JobIDs, status \in StatusArgs, err \in ErrArgs \ {Nil} :
          (/\ jobID \in DOMAIN jobs
           /\ ~Terminal(jobs[jobID])
           /\ UpdateJobStatus(jobID, status, err))
              => (jobs'[jobID].Status = "Error" /\ jobs'[jobID].Error = err)]_vars

\* C7 witness: a call with an error and a status argument that is not
\* terminal (no end time was stamped) has left the job in Error.
ErrorForcesErrorStatusWitness ==
    \E j \in DOMAIN jobs :
        /\ last = Returned("UpdateJobStatus", j, Nil, <<>>, <<>>)
        /\ jobs[j].Status = "Error"
        /\ jobs[j].Error = "scan failed"
        /\ jobs[j].EndTime = NoTime

\* C8: AddResult returns nil exactly for a job that exists and is Pending or
\* Running, and then appends the result and counts it; it returns a rejection,
\* changing nothing, exactly for a job that exists and is Completed or Error;
\* it returns not-found exactly for a job that does not exist.
AddResultOutcomes ==
    [][\A jobID \in JobIDs, result \in ResultArgs :
          AddResult(jobID, result) =>
              /\ (last'.err = Nil) <=> (jobID \in DOMAIN jobs /\ Accepts(jobs[jobID]))
              /\ (last'.err = Nil) =>
                     /\ jobs'[jobID].Results = Append(jobs[jobID].Results, result)
                     /\ jobs'[jobID].ProcessedURLs = jobs[jobID].ProcessedURLs + 1
                     /\ jobs'[jobID].VulnerableURLs =
                            jobs[jobID].VulnerableURLs + (IF result.IsVulnerable THEN 1 ELSE 0)
              /\ Rejection(last'.err) <=> (jobID \in DOMAIN jobs /\ Terminal(jobs[jobID]))
              /\ Rejection(last'.err) => jobs' = jobs
              /\ (last'.err = "job not found") <=> (jobID \notin DOMAIN jobs)]_vars

\* the call of this step was answered "job not found" and left the
\* registry as it was
NotFound(op, jobID) ==
    /\ last' = Returned(op, jobID, "job not found", <<>>, <<>>)
    /\ jobs' = jobs
    /\ issued' = issued

\* C20: UpdateJobStatus, AddResult, GetJobStatus and GetJobResults on an
\* identifier that is not in the registry (never created, or deleted)
\* return "job not found" and change nothing; a deleted job never comes
\* back, whatever calls follow; and a job that is in the registry is
\* answered with its snapshot and its results, a job without results with
\* ProcessedURLs 0 and an empty list, not with "job not found".
NotFoundOnlyWhenAbsent ==
    /\ [][\A jobID \in JobIDs \ DOMAIN jobs :
            /\ \A status \in StatusArgs, err \in ErrArgs :
                   UpdateJobStatus(jobID, status, err)
                       => NotFound("UpdateJobStatus", jobID)
            /\ \A result \in ResultArgs :
                   AddResult(jobID, result) => NotFound("AddResult", jobID)
            /\ GetJobStatus(jobID) => NotFound("GetJobStatus", jobID)
            /\ GetJobResults(jobID) => NotFound("GetJobResults", jobID)]_vars
    /\ [][\A jobID \in issued \ DOMAIN jobs : jobID \notin DOMAIN jobs']_vars
    /\ [][\A jobID \in DOMAIN jobs :
            /\ GetJobStatus(jobID) =>
                  /\ last'.err = Nil
                  /\ last'.snap = <<StatusCopy(jobs[jobID])>>
                  /\ jobs[jobID].Results = <<>> => last'.snap[1].ProcessedURLs = 0
            /\ GetJobResults(jobID) =>
                  /\ last'.err = Nil
                  /\ last'.results = jobs[jobID].Results]_vars

\* AddResult was called on a job that had been created and deleted
NotFoundOnlyWhenAbsentWitness ==
    /\ last.op = "AddResult"
    /\ last.err = "job not found"
    /\ last.jobID \in issued
    /\ last.jobID \notin DOMAIN jobs

\* list t is list s with zero or more elements appended
AppendedTo(s, t) == Len(s) <= Len(t) /\ SubSeq(t, 1, Len(s)) = s

\* C23: as long as a job is in the registry no call changes its TotalURLs or
\* lowers its ProcessedURLs or VulnerableURLs, and its result list changes
\* only by results being appended; so of two snapshots of a job the later
\* one has counters at least as large as the earlier one.
CountersNeverDecrease ==
    [][\A j \in DOMAIN jobs \cap DOMAIN jobs' :
          /\ jobs'[j].TotalURLs = jobs[j].TotalURLs
          /\ jobs'[j].ProcessedURLs >= jobs[j].ProcessedURLs
          /\ jobs'[j].VulnerableURLs >= jobs[j].VulnerableURLs
          /\ AppendedTo(jobs[j].Results, jobs'[j].Results)]_vars

\* C23 witness: a second result, not vulnerable, has just been added to a
\* job whose first result was vulnerable
CountersNeverDecreaseWitness ==
    \E j \in DOMAIN jobs :
        /\ last = Returned("AddResult", j, Nil, <<>>, <<>>)
        /\ jobs[j].ProcessedURLs = 2
        /\ jobs[j].VulnerableURLs = 1
        /\ jobs[j].Results[1].IsVulnerable
        /\ ~jobs[j].Results[2].IsVulnerable

\* C31: an AddResult call accepted on a Pending job leaves it Running, one
\* accepted on a Running job leaves it Running; no AddResult call, accepted
\* or not, makes a job Completed or Error that was not, or changes its end
\* time or its error text.
AddResultStartsRunning ==
    [][\A jobID \in DOMAIN jobs, result \in ResultArgs :
          AddResult(jobID, result) =>
              /\ jobID \in DOMAIN jobs'
              /\ jobs[jobID].Status \in {"Pending", "Running"}
                     => (last'.err = Nil /\ jobs'[jobID].Status = "Running")
              /\ Terminal(jobs'[jobID]) => Terminal(jobs[jobID])
              /\ jobs'[jobID].EndTime = jobs[jobID].EndTime
              /\ jobs'[jobID].Error = jobs[jobID].Error]_vars

\* C31 witness: the first result of a job was accepted and the job, which
\* no UpdateJobStatus call could have stamped, is Running
AddResultStartsRunningWitness ==
    \E j \in DOMAIN jobs :
        /\ last = Returned("AddResult", j, Nil, <<>>, <<>>)
        /\ jobs[j].ProcessedURLs = 1
        /\ jobs[j].Status = "Running"
        /\ jobs[j].StartTime = now
        /\ jobs[j].EndTime = NoTime

----------------------------------------------------------------------------
(***************************************************************************)
(* Properties of the registry holding several jobs (SpecJobs).             *)
(***************************************************************************)
\* this step is a CreateJob call returning jobID
CreateJobReturns(jobID) ==
    /\ last' # last
    /\ last'.op = "CreateJob"
    /\ last'.jobID = jobID

\* C21: CreateJob(totalURLs) returns an identifier that is not in the
\* registry and never was, and inserts under it a job with status Pending,
\* ProcessedURLs 0, VulnerableURLs 0, an empty result list, no end time, no
\* error, the start time now and TotalURLs equal to the argument; every
\* other job stays in the registry as it was.
CreateJobFrame ==
    [][\A jobID \in ManyJobIDs :
          CreateJobReturns(jobID) =>
              /\ jobID \notin DOMAIN jobs
              /\ jobID \notin issued
              /\ DOMAIN jobs' = DOMAIN jobs \cup {jobID}
              /\ \E totalURLs \in 0..MaxTotal :
                     /\ CreateJob(jobID, totalURLs)
                     /\ jobs'[jobID].TotalURLs = totalURLs
              /\ jobs'[jobID].JobID = jobID
              /\ jobs'[jobID].Status = "Pending"
              /\ jobs'[jobID].ProcessedURLs = 0
              /\ jobs'[jobID].VulnerableURLs = 0
              /\ jobs'[jobID].Results = <<>>
              /\ jobs'[jobID].EndTime = NoTime
              /\ jobs'[jobID].Error = ""
              /\ jobs'[jobID].StartTime = now
              /\ \A j \in DOMAIN jobs : jobs'[j] = jobs[j]]_vars

\* C21 witness: CreateJob(1) has just returned while another job, created
\* earlier, holds a result and has reached Error.
CreateJobFrameWitness ==
    /\ last.op = "CreateJob"
    /\ last.jobID \in DOMAIN jobs
    /\ jobs[last.jobID].TotalURLs = 1
    /\ jobs[last.jobID].StartTime > 0
    /\ \E j \in DOMAIN jobs \ {last.jobID} :
           /\ jobs[j].ProcessedURLs > 0
           /\ jobs[j].Status = "Error"

----------------------------------------------------------------------------
(***************************************************************************)
(* Properties of the registry with slices (SpecSlices).                    *)
(***************************************************************************)
\* the result list and the counters a job holds
Stored(as, job) ==
    [Results |-> View(as, job.Results), ProcessedURLs |-> job.ProcessedURLs,
     VulnerableURLs |-> job.VulnerableURLs]

\* C24: GetJobResults returns the job's results in a list of its own: the
\* caller replacing or removing entries of the list it got changes neither
\* the job's stored results nor its counters, and AddResult calls made after
\* the list was returned do not change it.
ResultsAreCopied ==
    /\ [][\A jobID \in DOMAIN jobs :
            GetJobResultsCopy(jobID)
                => View(arrays', returned') = View(arrays, jobs[jobID].Results)]_vars
    /\ [][\A i \in 1..MaxResults :
            (CallerRemoves(i) \/ \E result \in ResultArgs : CallerReplaces(i, result))
                => /\ DOMAIN jobs' = DOMAIN jobs
                   /\ \A j \in DOMAIN jobs :
                          Stored(arrays', jobs'[j]) = Stored(arrays, jobs[j])]_vars
    /\ [][\A jobID \in JobIDs, result \in ResultArgs :
            AddResultAppendSlice(jobID, result)
                => View(arrays', returned') = View(arrays, returned)]_vars

\* C24 witness: the caller replaced the entry of a list of one result it
\* had got, and a second result has been added to the job since; the job
\* still holds the entry the caller replaced
ResultsAreCopiedWitness ==
    \E j \in DOMAIN jobs :
        /\ last = Returned("AddResult", j, Nil, <<>>, <<>>)
        /\ returned.len = 1
        /\ jobs[j].Results.len = 2
        /\ jobs[j].ProcessedURLs = 2
        /\ View(arrays, returned)[1] # View(arrays, jobs[j].Results)[1]

----------------------------------------------------------------------------
(***************************************************************************)
(* Properties of the registry called concurrently (SpecLock).              *)
(***************************************************************************)
\* the counters of job agree with its result list
ExactCounters(job) ==
    /\ job.ProcessedURLs = Len(job.Results)
    /\ job.VulnerableURLs = CountVuln(job.Results)

\* C9: under any interleaving of concurrent calls, whenever no writer is
\* inside its critical section (the states a query can see) every job's
\* ProcessedURLs is the length of its result list and its VulnerableURLs the
\* number of vulnerable results in it; and no step of any caller changes the
\* result list or a counter of a job that is Completed or Error.
RegistryCountersExact ==
    /\ [](mu.writer = NoCaller => \A j \in DOMAIN jobs : ExactCounters(jobs[j]))
    /\ [][\A j \in DOMAIN jobs \cap DOMAIN jobs' :
            Terminal(jobs[j]) =>
                /\ jobs'[j].Results = jobs[j].Results
                /\ jobs'[j].ProcessedURLs = jobs[j].ProcessedURLs
                /\ jobs'[j].VulnerableURLs = jobs[j].VulnerableURLs]_vars

\* C9 witness: two results, one of them vulnerable, have been added, the
\* second AddResult has returned and a query is inside its read section while
\* the other caller's AddResult has been refused or is yet to start.
RegistryCountersExactWitness ==
    \E j \in DOMAIN jobs :
        /\ Len(jobs[j].Results) = 2
        /\ jobs[j].VulnerableURLs = 1
        /\ mu.readers # {}
        /\ last.op = "AddResult" /\ last.err = Nil

\* caller c returns from GetJobStatus in this step
GetJobStatusReturns(c) ==
    /\ call[c].op = "GetJobStatus"
    /\ pc[c] # "idle"
    /\ pc'[c] = "idle"

\* caller c takes a step of GetJobStatus, m.mu.RLock() included
GetJobStatusSteps(c) ==
    /\ pc'[c] # pc[c]
    /\ call[c].op = "GetJobStatus" \/ call'[c].op = "GetJobStatus"

\* C22: every snapshot GetJobStatus returns is the copy of the scalar fields
\* of the job in one registry state, a state in which no writer is inside
\* its critical section (so never a ProcessedURLs from before a concurrent
\* AddResult with a VulnerableURLs or Status from after it); the snapshot
\* has no Results field; and no step of GetJobStatus changes a job.
SnapshotFromOneState ==
    /\ [][\A c \in Callers :
            (GetJobStatusReturns(c) /\ last'.err = Nil) =>
                /\ call[c].jobID \in DOMAIN jobs
                /\ mu.writer = NoCaller
                /\ last'.snap = <<StatusCopy(jobs[call[c].jobID])>>
                /\ "Results" \notin DOMAIN last'.snap[1]
                /\ last'.snap[1].ProcessedURLs = Len(jobs[call[c].jobID].Results)
                /\ last'.snap[1].VulnerableURLs = CountVuln(jobs[call[c].jobID].Results)]_vars
    /\ [][\A c \in Callers : GetJobStatusSteps(c) => jobs' = jobs]_vars

\* C22 witness: GetJobStatus has returned a snapshot with one processed,
\* vulnerable result of a Running job while the other caller is inside
\* its own read section
SnapshotFromOneStateWitness ==
    /\ last.op = "GetJobStatus"
    /\ last.err = Nil
    /\ last.snap[1].ProcessedURLs = 1
    /\ last.snap[1].VulnerableURLs = 1
    /\ last.snap[1].Status = "Running"
    /\ \E c \in Callers : pc[c] = "readMore"

\* caller c is between the Lock or RLock and the Unlock or RUnlock of a method
InCriticalSection(c) == pc[c] # "idle"

\* caller c is in CreateJob, UpdateJobStatus, AddResult or DeleteJob
Mutating(c) == call[c].op \in {"CreateJob", "UpdateJobStatus", "AddResult", "DeleteJob"}

\* C25: while a caller is inside the critical section of CreateJob,
\* UpdateJobStatus, AddResult or DeleteJob no other caller is inside the
\* critical section of any method; GetJobStatus and GetJobResults can be
\* inside theirs together (the witness).
WritersExcludeAll ==
    \A c \in Callers : \A d \in Callers \ {c} :
        (InCriticalSection(c) /\ Mutating(c)) => ~InCriticalSection(d)

\* C25 witness: one caller is inside GetJobStatus and another inside
\* GetJobResults, on a job that holds a result
WritersExcludeAllWitness ==
    \E c \in Callers : \E d \in Callers \ {c} :
        /\ InCriticalSection(c) /\ call[c].op = "GetJobStatus"
        /\ InCriticalSection(d) /\ call[d].op = "GetJobResults"
        /\ mu.readers = {c, d}
        /\ call[c].jobID \in DOMAIN jobs
        /\ jobs[call[c].jobID].ProcessedURLs > 0

----------------------------------------------------------------------------
(***************************************************************************)
(* Properties of the scan pipeline (SpecRun).                              *)
(***************************************************************************)
\* the results collected by the run: s.Results, or the job's result list
Collected ==
    IF cfg.API
    THEN IF run.jobID \in DOMAIN jobs THEN jobs[run.jobID].Results ELSE <<>>
    ELSE Results

\* R holds as many results as there are targets, one for each target
OncePerTarget(R) ==
    /\ Len(R) = Len(urls)
    /\ \A i \in DOMAIN urls : Cardinality({j \in DOMAIN R : R[j].URL = urls[i]}) = 1

\* C1: when a run whose context was never cancelled completes, exactly one
\* result per target has been collected: in batch mode s.Results holds M
\* results when Run is about to return; in API mode the job just marked
\* Completed has ProcessedURLs = M and M results.
ExactlyOnceAccounting ==
    (run.pc = "final" /\ scanCtx = Nil) =>
        IF cfg.API
        THEN (run.jobID \in DOMAIN jobs /\ jobs[run.jobID].Status = "Completed") =>
                /\ jobs[run.jobID].ProcessedURLs = Len(urls)
                /\ OncePerTarget(jobs[run.jobID].Results)
        ELSE OncePerTarget(Results)

\* an API run of the longest target list with several workers has marked
\* its job Completed, its context never cancelled
ExactlyOnceAccountingWitness ==
    /\ run.pc = "final"
    /\ scanCtx = Nil
    /\ cfg.API
    /\ cfg.Threads > 1
    /\ Len(urls) = MaxTargets
    /\ run.jobID \in DOMAIN jobs
    /\ jobs[run.jobID].Status = "Completed"
    /\ jobs[run.jobID].ProcessedURLs = MaxTargets

\* C2: once the caller has waited for the collector, no result that a
\* worker placed on the output queue is left in it: the collector has
\* exited only on seeing the queue closed and drained.
DeliveredResultsCollected ==
    (run.pc \in {"markCompleted", "final"} /\ collector = "done") =>
        Drained(resultChan)

\* C10: every result a worker has emitted with a non-empty error has status
\* code 0 and is not flagged vulnerable.
ErrorResultHasNoStatusCode ==
    \A i \in DOMAIN resultChan.buf :
        resultChan.buf[i].Error # "" =>
            /\ resultChan.buf[i].StatusCode = 0
            /\ ~resultChan.buf[i].IsVulnerable

\* the goroutines of the run have all stopped
AllStopped ==
    /\ feeder.pc = "done"
    /\ \A w \in Workers : worker[w].pc = "stopped"
    /\ collector = "done"

\* C11: the output queue is closed only after every worker has stopped, by
\* the one close(resultChan) of the caller after wg.Wait(); no worker is
\* about to send, or sending, when the queue is closed.
ClosedAfterWorkersStopped ==
    resultChan.closed =>
        /\ \A w \in Workers : worker[w].pc = "stopped"
        /\ run.pc \in {"collectorWait", "markCompleted", "final", "returned"}

\* the output queue of a run with several workers and the longest target
\* list has been closed
ClosedAfterWorkersStoppedWitness ==
    /\ resultChan.closed
    /\ cfg.Threads > 1
    /\ Len(urls) = MaxTargets
    /\ run.pc = "collectorWait"

\* C12: once the scan context is cancelled, the feeder, every worker and
\* the collector eventually stop and the run returns.
CancelledRunStops ==
    Done(scanCtx) ~> (AllStopped /\ run.pc = "returned")

\* the context is cancelled while a worker is blocked sending: the output
\* queue is full and the collector has left
CancelledRunStopsWitness ==
    /\ Done(scanCtx)
    /\ run.pc = "wgWait"
    /\ collector = "done"
    /\ ~CanSend(resultChan)
    /\ \E w \in Workers : worker[w].pc = "send"

\* how many results of the sequence q are results for the URL u
CountURL(q, u) == Cardinality({i \in DOMAIN q : q[i].URL = u})

\* where target number k is: still with the feeder, in the input queue, with
\* a worker, in the output queue, or collected
Holders(k) ==
    (IF feeder.i <= k THEN 1 ELSE 0)
    + Cardinality({i \in DOMAIN urlChan.buf : urlChan.buf[i] = urls[k]})
    + Cardinality({w \in Workers : worker[w].urlStr = urls[k]})
    + CountURL(resultChan.buf, urls[k])
    + CountURL(Collected, urls[k])

\* worker w, holding a target, moves on in this step
WorkerLeaves(w, label) == worker[w].pc = label /\ worker'[w].pc # label

\* C13: a target a worker received yields at most one result on the output
\* queue; the worker goes from the fetch to the send with a result for that
\* target, and leaves the send either having put exactly that result on the
\* queue or, the context being cancelled, stopped without delivering.
AtMostOneResultPerTarget ==
    /\ [](\A k \in DOMAIN urls : Holders(k) <= 1)
    /\ [][\A w \in Workers :
            /\ WorkerLeaves(w, "fetching") =>
                  /\ worker'[w].pc = "send"
                  /\ worker'[w].urlStr = worker[w].urlStr
                  /\ worker'[w].result.URL = worker[w].urlStr
            /\ WorkerLeaves(w, "send") =>
                  \/ resultChan' = Send(resultChan, worker[w].result)
                  \/ /\ Done(scanCtx)
                     /\ worker'[w].pc = "stopped"
                     /\ resultChan' = resultChan]_vars

\* a batch run in which a worker dropped the result of a target on
\* cancellation: the target is nowhere any more
AtMostOneResultPerTargetWitness ==
    /\ ~cfg.API
    /\ Done(scanCtx)
    /\ \E k \in DOMAIN urls : Holders(k) = 0
    /\ \E k \in DOMAIN urls : CountURL(Results, urls[k]) = 1

\* the collector takes the head of the output queue in this step
CollectorTakes == collector = "collect" /\ CanRecv(resultChan) /\ resultChan' = Recv(resultChan)

\* the job of the run is in the registry and accepts results
JobAccepts == run.jobID \in DOMAIN jobs /\ Accepts(jobs[run.jobID])

\* the collector's AddResult call of this step returns an error
AddResultFails == cfg.API /\ CollectorTakes /\ AddResultReturn(jobs, run.jobID) # Nil

\* C14: a failed fetch does not abort the pipeline: the worker builds a
\* result with the error and IsVulnerable false without cancelling the
\* context, sends it and goes on to the delay or the next receive; the
\* collector appends it and, in API mode, ProcessedURLs grows by one and the
\* collection goes on; an uncancelled run with a failed target still
\* collects a result for every target.
FetchFailureDoesNotAbort ==
    /\ [][/\ \A w \in Workers :
               /\ (WorkerLeaves(w, "fetching") /\ worker'[w].result.Error # "") =>
                     /\ worker'[w].pc = "send"
                     /\ ~worker'[w].result.IsVulnerable
                     /\ scanCtx' = scanCtx
               /\ (WorkerLeaves(w, "send") /\ worker[w].result.Error # "" /\ ~Done(scanCtx)) =>
                     /\ resultChan' = Send(resultChan, worker[w].result)
                     /\ worker'[w].pc \in {"recv", "delay"}
                     /\ scanCtx' = scanCtx
          /\ (CollectorTakes /\ Head(resultChan.buf).Error # "") =>
               IF cfg.API
               THEN JobAccepts =>
                      /\ jobs'[run.jobID].Results =
                             Append(jobs[run.jobID].Results, Head(resultChan.buf))
                      /\ jobs'[run.jobID].ProcessedURLs = jobs[run.jobID].ProcessedURLs + 1
                      /\ collector' = "collect"
                      /\ scanCtx' = scanCtx
               ELSE /\ Results' = Append(Results, Head(resultChan.buf))
                    /\ collector' = "collect"
                    /\ scanCtx' = scanCtx]_vars
    /\ []((/\ run.pc = "final"
           /\ scanCtx = Nil
           /\ \E i \in DOMAIN Collected : Collected[i].Error # "")
          => Len(Collected) = Len(urls))

\* an uncancelled API run of two targets whose first collected result is a
\* failed fetch and whose second is a successful one, both counted
FetchFailureDoesNotAbortWitness ==
    /\ cfg.API
    /\ run.pc = "final"
    /\ scanCtx = Nil
    /\ Len(Collected) = 2
    /\ Collected[1].Error # ""
    /\ Collected[2].Error = ""
    /\ jobs[run.jobID].ProcessedURLs = 2

\* the pipeline has finished: the workers have stopped, the output queue is
\* closed and the collector has left
PipelineFinished ==
    /\ \A w \in Workers : worker[w].pc = "stopped"
    /\ resultChan.closed
    /\ collector = "done"

\* C17: the scan goroutine marks the job Completed only after the pipeline
\* has finished, so a Completed job belongs to a finished pipeline and the
\* collector's AddResult is never refused for a job the scan goroutine has
\* completed: it fails only when the job is not found.
CompletedAfterPipeline ==
    /\ [][(run.pc = "markCompleted" /\ run'.pc = "final") => PipelineFinished]_vars
    /\ []((run.jobID \in DOMAIN jobs /\ jobs[run.jobID].Status = "Completed")
            => PipelineFinished)
    /\ [][AddResultFails => run.jobID \notin DOMAIN jobs]_vars

\* the scan goroutine has marked the job of a run with a delay Completed
CompletedAfterPipelineWitness ==
    /\ cfg.API
    /\ cfg.Delay > 0
    /\ run.pc = "final"
    /\ run.jobID \in DOMAIN jobs
    /\ jobs[run.jobID].Status = "Completed"
    /\ jobs[run.jobID].ProcessedURLs = jobs[run.jobID].TotalURLs

\* C29: in batch mode Scanner.Run takes the final counts and calls the
\* report writers once, after the collector goroutine has exited (never
\* before, never a second time), on the results collected; and no result is
\* appended to Scanner.Results from then on.
FinalReportOnce ==
    /\ [](Len(run.reports) <= 1)
    /\ []((~cfg.API /\ run.pc \in {"final", "returned"}) <=> (Len(run.reports) = 1))
    /\ [](run.reports # <<>> =>
             /\ collector = "done"
             /\ run.reports[1] = FinalReport(Results)
             /\ run.reports[1].numVulnerable = CountVuln(Results))
    /\ [][run.reports # <<>> => (Results' = Results /\ run'.reports = run.reports)]_vars

\* C29 witness: a batch run has returned after reporting two results, one
\* of them vulnerable
FinalReportOnceWitness ==
    /\ ~cfg.API
    /\ run.pc = "returned"
    /\ Len(run.reports) = 1
    /\ run.reports[1].scanned = 2
    /\ run.reports[1].numVulnerable = 1

\* C30: in batch mode an interrupt of the process cancels the scan context
\* (after which feeder, workers and collector would stop as they do on any
\* cancellation): once the process was interrupted, scanCtx is done.
InterruptCancelsScan == run.pc = "killed" => Done(scanCtx)


\* the fetches in flight: the workers inside client.Fetch
InFlight == {w \in Workers : worker[w].pc = "fetching"}

\* C32: a run uses resources in proportion to the worker count: once the
\* pipeline is started there are exactly cfg.Threads workers (none before),
\* at most cfg.Threads fetches are in flight, and neither the input queue
\* nor the output queue ever holds more than cfg.Threads items.
BoundedByThreads ==
    /\ Len(worker) = (IF feeder.pc = "unstarted" THEN 0 ELSE cfg.Threads)
    /\ Cardinality(InFlight) <= cfg.Threads
    /\ Len(urlChan.buf) <= cfg.Threads
    /\ Len(resultChan.buf) <= cfg.Threads

\* C32 witness: with one worker, the worker is inside a fetch while the
\* input queue is full and the feeder has closed it
BoundedByThreadsWitness ==
    /\ cfg.Threads = 1
    /\ Cardinality(InFlight) = 1
    /\ Len(urlChan.buf) = 1
    /\ feeder.pc = "done"


\* the input queue gains an item in this step
Enqueues == Len(urlChan'.buf) > Len(urlChan.buf)

\* the input queue is closed in this step
ClosesInput == ~urlChan.closed /\ urlChan'.closed

\* C33: the feeder enqueues the targets one at a time in list order, each at
\* most once (the item added is the next of the list, the queue being open,
\* and the feeder's position only moves forward by one); it closes the
\* queue once, when every target is enqueued or the context is cancelled,
\* and is then done: it neither enqueues nor closes again; a queue closed
\* while the context is not cancelled has had every target enqueued; and a
\* started feeder does close the queue.
FeederInOrderThenCloses ==
    /\ [][Enqueues =>
            /\ feeder.pc = "feed"
            /\ ~urlChan.closed
            /\ urlChan'.buf = Append(urlChan.buf, urls[feeder.i])
            /\ feeder'.i = feeder.i + 1]_vars
    /\ [][feeder'.i # feeder.i => (Enqueues /\ feeder'.i = feeder.i + 1)]_vars
    /\ [][ClosesInput =>
            /\ feeder.pc # "done"
            /\ feeder'.pc = "done"
            /\ (feeder.i > Len(urls) \/ Done(scanCtx))]_vars
    /\ [][feeder.pc = "done" =>
            (feeder' = feeder /\ urlChan'.closed /\ ~Enqueues)]_vars
    /\ [](feeder.pc = "done" <=> urlChan.closed)
    /\ []((urlChan.closed /\ ~Done(scanCtx)) => feeder.i = Len(urls) + 1)
    /\ (feeder.pc = "feed") ~> urlChan.closed

\* C33 witness: the feeder has closed the queue after a cancellation, with
\* the first of two targets enqueued and the second never enqueued
FeederInOrderThenClosesWitness ==
    /\ Len(urls) = 2
    /\ feeder = [pc |-> "done", i |-> 2]
    /\ urlChan.closed
    /\ Done(scanCtx)


\* worker w stops in this step
Stops(w) == worker[w].pc # "stopped" /\ worker'[w].pc = "stopped"

\* C34: while the context is not cancelled a worker stops only from its
\* receive, on finding the input queue closed and empty; an item leaves the
\* input queue only by a worker receiving it; so when all workers of a
\* started run have stopped and the context is not cancelled, the feeder
\* has enqueued every target and none is left in the queue: every target
\* has been received by a worker.
WorkersStopOnClosedInput ==
    /\ [][\A w \in Workers :
            (Stops(w) /\ ~Done(scanCtx)) =>
                (worker[w].pc = "recv" /\ Drained(urlChan))]_vars
    /\ [][Len(urlChan'.buf) < Len(urlChan.buf) =>
            \E w \in Workers :
                /\ worker[w].pc = "recv"
                /\ worker'[w].urlStr = Head(urlChan.buf)
                /\ urlChan'.buf = Tail(urlChan.buf)]_vars
    /\ []((Workers # {} /\ WaitReturns /\ ~Done(scanCtx)) =>
            (feeder.i = Len(urls) + 1 /\ urlChan.buf = <<>>))

\* C34 witness: both workers of an uncancelled run over two targets have
\* stopped and the caller has not yet closed the output queue
WorkersStopOnClosedInputWitness ==
    /\ cfg.Threads = 2
    /\ Len(urls) = 2
    /\ WaitReturns
    /\ ~Done(scanCtx)
    /\ run.pc = "wgWait"
    /\ feeder.i = 3


\* worker w takes up a target in this step
TakesTarget(w) == worker[w].urlStr = "" /\ worker'[w].urlStr # ""

\* how many places hold target number k before its fetch is over: the
\* feeder, the input queue, the workers
Pending(k) ==
    (IF feeder.i <= k THEN 1 ELSE 0)
    + Cardinality({i \in DOMAIN urlChan.buf : urlChan.buf[i] = urls[k]})
    + Cardinality({w \in Workers : worker[w].urlStr = urls[k]})

Delivers(w) == WorkerLeaves(w, "send") /\ resultChan'.buf # resultChan.buf

\* a worker that has delivered a result waits out the delay: with a positive
\* delay it goes from the send to the wait, and from the wait, without a
\* target, to the receive or the stop
WaitsAfterDelivery ==
    /\ [][\A w \in Workers :
            (Delivers(w) /\ cfg.Delay > 0) => worker'[w].pc = "delay"]_vars
    /\ [][\A w \in Workers :
            worker[w].pc = "delay" =>
                (~TakesTarget(w) /\ worker'[w].pc \in {"delay", "recv", "stopped"})]_vars

\* a wait during which the context is cancelled ends with the worker stopped
CancelledWaitStops ==
    [][\A w \in Workers :
          (worker[w].pc = "delay" /\ Done(scanCtx) /\ worker'[w] # worker[w])
              => worker'[w].pc = "stopped"]_vars

\* C36: with a positive delay, a worker that has delivered a result does not
\* receive its next target until the wait has ended, and a wait during which
\* the context is cancelled ends with the worker stopped, no further target
\* received.
DelayedThenNextOrStopped == WaitsAfterDelivery /\ CancelledWaitStops


\* the job of the run is in the registry
JobAlive == cfg.API /\ run.jobID \in DOMAIN jobs

\* the run has returned after starting its pipeline
Terminated == run.pc = "returned" /\ Workers # {}

\* the targets no worker has received: those the feeder never enqueued and
\* those left in the input queue
NeverReceived == (Len(urls) + 1 - feeder.i) + Len(urlChan.buf)

\* the targets whose result is nowhere: dropped by a worker
Dropped == Cardinality({k \in DOMAIN urls : Holders(k) = 0})

\* target number k, held somewhere before this step, is nowhere after it
Vanishes(k) == Holders(k) = 1 /\ Holders(k)' = 0

\* worker w, sending the result of target number k with the context
\* cancelled, stops without delivering it
DropsOnCancel(w, k) ==
    /\ worker[w].pc = "send"
    /\ worker[w].urlStr = urls[k]
    /\ Done(scanCtx)
    /\ worker'[w].pc = "stopped"
    /\ resultChan' = resultChan

\* C37: while the job of an API run is in the registry, fed by the
\* collector's AddResult calls only, TotalURLs is the number of targets and
\* ProcessedURLs the number of results stored, never more than TotalURLs; a
\* result is lost only by a worker that stops on cancellation while sending
\* it; and when the run has returned, TotalURLs - ProcessedURLs is the number
\* of targets never received by a worker plus the number of results left in
\* the output queue plus the number of results dropped.  The accounting is
\* that of the pipeline, so it is stated of s.Results in batch mode too.
DriverAccounting ==
    /\ [](JobAlive =>
            /\ jobs[run.jobID].TotalURLs = Len(urls)
            /\ jobs[run.jobID].ProcessedURLs = Len(jobs[run.jobID].Results)
            /\ jobs[run.jobID].ProcessedURLs <= jobs[run.jobID].TotalURLs)
    /\ [][(cfg.API => (JobAlive /\ run.jobID \in DOMAIN jobs')) =>
            \A k \in DOMAIN urls :
                Vanishes(k) => \E w \in Workers : DropsOnCancel(w, k)]_vars
    /\ []((Terminated /\ (cfg.API => JobAlive)) =>
            (IF cfg.API
             THEN jobs[run.jobID].TotalURLs - jobs[run.jobID].ProcessedURLs
             ELSE Len(urls) - Len(Results))
                = NeverReceived + Len(resultChan.buf) + Dropped)

\* C37 witness: an API run over two targets has returned and its job, still
\* in the registry, has counted both
DriverAccountingWitness ==
    /\ Terminated
    /\ JobAlive
    /\ jobs[run.jobID].TotalURLs = 2
    /\ jobs[run.jobID].ProcessedURLs = 2
    /\ NeverReceived = 0


\* C38: the pipeline does not deadlock: whatever the number of targets (none,
\* fewer or more than the queues hold) and of workers, cancelled or not, a
\* run, every fetch returning, ends with all workers stopped, the output
\* queue closed, the collector gone and the caller returned, and stays so.
RunAlwaysReturns ==
    /\ <>[](run.pc = "returned")
    /\ (run.pc = "wgWait") ~> [](PipelineFinished /\ run.pc = "returned")

\* C38 witness: a cancelled run of one worker over two targets has returned
\* with a result left in the output queue and a target never enqueued
RunAlwaysReturnsWitness ==
    /\ cfg.Threads = 1
    /\ Len(urls) = 2
    /\ run.pc = "returned"
    /\ PipelineFinished
    /\ Len(resultChan.buf) = 1
    /\ feeder = [pc |-> "done", i |-> 2]


\* C40: once the scan context is cancelled no worker takes up a target: none
\* is received from the input queue and no fetch is started for a target the
\* worker did not already hold (so that no result of such a fetch can reach
\* the collected results).
NoNewTargetAfterCancel ==
    [][Done(scanCtx) => \A w \in Workers : ~TakesTarget(w)]_vars

----------------------------------------------------------------------------
(***************************************************************************)
(* Properties of the scan pipeline while other goroutines use the registry *)
(* (SpecRunEnv).                                                           *)
(***************************************************************************)
\* the job of the run keeps its results and counters in this step
JobResultsUnchanged ==
    (run.jobID \in DOMAIN jobs /\ run.jobID \in DOMAIN jobs') =>
        /\ jobs'[run.jobID].Results = jobs[run.jobID].Results
        /\ jobs'[run.jobID].ProcessedURLs = jobs[run.jobID].ProcessedURLs

\* C15: in API mode, when AddResult returns an error the collector drops
\* that result (it is taken off the queue and the registry is unchanged),
\* cancels the scan context and leaves; afterwards the run adds nothing to
\* the job and returns; if the job still exists when the run ends, the
\* lost result shows as ProcessedURLs < TotalURLs.
AddResultFailureStopsRun ==
    /\ [][AddResultFails =>
            /\ jobs' = jobs
            /\ resultChan' = Recv(resultChan)
            /\ Done(scanCtx')
            /\ collector' = "done"]_vars
    /\ [][collector = "done" => JobResultsUnchanged]_vars
    /\ (cfg.API /\ Done(scanCtx)) ~> (run.pc = "returned")
    /\ []((cfg.API /\ run.pc = "final" /\ Done(scanCtx) /\ run.jobID \in DOMAIN jobs) =>
            /\ jobs[run.jobID].ProcessedURLs < jobs[run.jobID].TotalURLs
            /\ jobs[run.jobID].ProcessedURLs = Len(jobs[run.jobID].Results))

\* an API run of two targets ended after AddResult refused the second
\* result because the job had turned terminal
AddResultFailureStopsRunWitness ==
    /\ cfg.API
    /\ run.pc = "final"
    /\ Done(scanCtx)
    /\ run.jobID \in DOMAIN jobs
    /\ Terminal(jobs[run.jobID])
    /\ jobs[run.jobID].TotalURLs = 2
    /\ jobs[run.jobID].ProcessedURLs = 1

\* C16: in API mode a run that was aborted because the registry refused a
\* result leaves its job, if the job still exists, in status Error; a run
\* that was not aborted leaves it Completed.
SystemicFailureMarksError ==
    (cfg.API /\ run.pc = "final" /\ run.jobID \in DOMAIN jobs) =>
        IF Done(scanCtx)
        THEN jobs[run.jobID].Status = "Error"
        ELSE jobs[run.jobID].Status \in {"Completed", "Error"}

\* the scan goroutine is past its completion code
DriverDone == run.pc \in {"final", "returned"}

\* C39: the job of an accepted scan request, unless it is deleted, ends
\* Completed or Error: once inserted it leads to a state where it is
\* terminal or gone, and once the scan goroutine is past its completion
\* code, which follows the end of the pipeline, a job still in the registry
\* is neither Pending nor Running nor in any other non-terminal status.
JobEndsTerminal ==
    /\ JobAlive ~> (~JobAlive \/ Terminal(jobs[run.jobID]))
    /\ []((JobAlive /\ DriverDone) => Terminal(jobs[run.jobID]))
    /\ cfg.API ~> DriverDone

\* C39 witness: the scan goroutine has returned and the job, which another
\* goroutine had set to a status that refuses results, is Completed with
\* one of its two targets counted
JobEndsTerminalWitness ==
    /\ JobAlive
    /\ run.pc = "returned"
    /\ jobs[run.jobID].Status = "Completed"
    /\ jobs[run.jobID].TotalURLs = 2
    /\ jobs[run.jobID].ProcessedURLs = 1

----------------------------------------------------------------------------
(***************************************************************************)
(* Properties of the HTTP handlers (SpecAPI).                              *)
(***************************************************************************)
\* the keys of an encoded status snapshot
StatusKeys == {JSONTag[f] : f \in DOMAIN JSONTag} \ {"-"}

\* the response to the request being served has been written
Answered(op) == handler.op = op /\ handler.pc = "done"

\* C18: the result query answers a job that is not Completed or Error with
\* its status snapshot only, and a Completed or Error job with the snapshot
\* and the job's full result list, whose length is the processed_urls of
\* the same response.
ResultQueryReturnsResults ==
    Answered("ScanResult") =>
        CASE handler.response.code = 200 ->
                 /\ Terminal(handler.status[1])
                 /\ \E key \in DOMAIN handler.response.body \ StatusKeys :
                        handler.response.body[key] = handler.results
                 /\ Len(handler.results) = handler.response.body["processed_urls"]
          [] handler.response.code = 202 ->
                 /\ ~Terminal(handler.status[1])
                 /\ DOMAIN handler.response.body \subseteq StatusKeys
          [] OTHER -> TRUE

\* the step created no job and the request is answered 400
Refused ==
    /\ jobs' = jobs
    /\ issued' = issued
    /\ handler'.pc = "done"
    /\ handler'.response.code = 400

\* the step inserted a Pending job for the n URLs that will be scanned; no
\* scan goroutine is started and no identifier returned yet
Inserted(n) ==
    /\ handler'.jobID \notin DOMAIN jobs
    /\ handler'.jobID \in DOMAIN jobs'
    /\ jobs'[handler'.jobID] = NewJobStatus(handler'.jobID, n, now)
    /\ ~handler'.started
    /\ handler'.response = NoResponse

\* StartScanHandler takes up a request in this step
Submitted == handler.pc = "idle" /\ handler'.op = "StartScan"

\* the requests StartScanHandler is sent
Requests == SeqUpTo(RequestURLs, MaxRequestURLs) \X RequestKeywords

\* what holds of every Submit besides the refusal: the scan goroutine is
\* started and the identifier returned only for a job that was inserted,
\* and a job leaves the registry only by DeleteJob
InsertedBeforeReturn ==
    /\ []((handler.started \/ handler.response.code = 202) => handler.jobID \in issued)
    /\ [][\A jobID \in DOMAIN jobs : jobID \notin DOMAIN jobs' => last'.op = "DeleteJob"]_vars

\* C19, as claimed: Submit with an empty URL list or an empty keyword list
\* creates no job; any other Submit inserts the job, Pending and with
\* TotalURLs the number of targets, before the identifier is returned and
\* before the scan starts, and the job stays until it is deleted.
SubmitInsertsJob ==
    /\ [][\A request \in Requests :
            (Submitted /\ StartScanHandlerCheck(request[1], request[2])) =>
                IF request[1] = <<>> \/ request[2] = <<>>
                THEN Refused
                ELSE Inserted(Len(ValidURLs(request[1])))]_vars
    /\ InsertedBeforeReturn

\* C19, amended: a Submit whose URL list holds no valid URL is refused too.
SubmitInsertsJobForValidURLs ==
    /\ [][\A request \in Requests :
            (Submitted /\ StartScanHandlerCheck(request[1], request[2])) =>
                IF \/ request[1] = <<>>
                   \/ request[2] = <<>>
                   \/ \A i \in DOMAIN request[1] : ~IsValidURL(TrimSpace(request[1][i]))
                THEN Refused
                ELSE Inserted(Cardinality({i \in DOMAIN request[1] :
                                              IsValidURL(TrimSpace(request[1][i]))}))]_vars
    /\ InsertedBeforeReturn

\* a Submit with a longest URL list, one of them not valid, has returned
\* the identifier of the job created for the others
SubmitInsertsJobForValidURLsWitness ==
    /\ Answered("StartScan")
    /\ handler.response.code = 202
    /\ handler.started
    /\ handler.jobID \in DOMAIN jobs
    /\ jobs[handler.jobID].Status = "Pending"
    /\ jobs[handler.jobID].TotalURLs = MaxRequestURLs - 1

====
